---------------------------- MODULE Spec2Model ----------------------------
(***************************************************************************)
(* Model of the gpspoint reader and writer of viking (gpspoint.c): the     *)
(* escaping codec (slashdup / deslashndup), the line tokenizer, the field  *)
(* dispatcher (gpspoint_process_tag / gpspoint_process_key_and_value), the *)
(* record assembler (a_gpspoint_read_file) and the writer                  *)
(* (a_gpspoint_write_file).                                                *)
(*                                                                         *)
(* Conventions.  A C string is a sequence of one-character strings without *)
(* its terminator; a pointer into a buffer is a 0-based offset, as in the  *)
(* C code, and At(buf, i) is the byte at that offset (NUL at the           *)
(* terminator).  A NULL gchar* is NullStr.  A gdouble is a record          *)
(* [nan, v]: NAN, or the fixed-point value v / 10^FracDigits.              *)
(***************************************************************************)
EXTENDS Integers, Sequences, FiniteSets, TLC

(***************************************************************************)
(* Bounds of the model.                                                    *)
(***************************************************************************)
MaxLines == 4
MaxStrLen == 3

(***************************************************************************)
(* Characters and C strings.                                               *)
(***************************************************************************)
NUL == "NUL"
UNINIT == "UNINIT"
NullStr == <<NUL>>
NULLP == -1

BSL == "\\"
DQ == "\""

At(buf, i) == IF i >= 0 /\ i < Len(buf) THEN buf[i + 1] ELSE NUL

strlen(s) == Len(s)

\* tolower, isdigit and the value of a digit, in the C locale
LowerOf ==
  [A |-> "a", B |-> "b", C |-> "c", D |-> "d", E |-> "e", F |-> "f",
   G |-> "g", H |-> "h", I |-> "i", J |-> "j", K |-> "k", L |-> "l",
   M |-> "m", N |-> "n", O |-> "o", P |-> "p", Q |-> "q", R |-> "r",
   S |-> "s", T |-> "t", U |-> "u", V |-> "v", W |-> "w", X |-> "x",
   Y |-> "y", Z |-> "z"]

UpperCase == DOMAIN LowerOf

tolower(c) == IF c \in UpperCase THEN LowerOf[c] ELSE c

isspace(c) == c \in {" ", "\t", "\n", "\r", "\f"}

DigitOf ==
  [c \in {"0","1","2","3","4","5","6","7","8","9"} |->
     CASE c = "0" -> 0 [] c = "1" -> 1 [] c = "2" -> 2 [] c = "3" -> 3
       [] c = "4" -> 4 [] c = "5" -> 5 [] c = "6" -> 6 [] c = "7" -> 7
       [] c = "8" -> 8 [] c = "9" -> 9]

DecimalDigits == DOMAIN DigitOf

isdigit(c) == c \in DecimalDigits
DigitVal(c) == DigitOf[c]

\* strncasecmp ( p, lit, n ) == 0 for the n bytes at offset p of buf
strncasecmp0(buf, p, lit, n) ==
  \A i \in 0..(n - 1) : tolower(At(buf, p + i)) = tolower(At(lit, i))

\* strncmp ( p, lit, n ) == 0
strncmp0(buf, p, lit, n) ==
  \A i \in 0..(n - 1) : At(buf, p + i) = At(lit, i)

\* g_strndup ( p, n ): at most n bytes, stopping at the terminator
RECURSIVE g_strndup(_, _, _)
g_strndup(buf, p, n) ==
  IF n <= 0 \/ At(buf, p) = NUL THEN <<>>
  ELSE <<At(buf, p)>> \o g_strndup(buf, p + 1, n - 1)

(***************************************************************************)
(* The key vocabulary of the format and the values of the type field.      *)
(***************************************************************************)
KEY == [
  latitude |-> <<"l","a","t","i","t","u","d","e">>,
  longitude |-> <<"l","o","n","g","i","t","u","d","e">>,
  unixtime |-> <<"u","n","i","x","t","i","m","e">>,
  altitude |-> <<"a","l","t","i","t","u","d","e">>,
  type |-> <<"t","y","p","e">>,
  name |-> <<"n","a","m","e">>,
  comment |-> <<"c","o","m","m","e","n","t">>,
  description |-> <<"d","e","s","c","r","i","p","t","i","o","n">>,
  source |-> <<"s","o","u","r","c","e">>,
  number |-> <<"n","u","m","b","e","r">>,
  xtype |-> <<"x","t","y","p","e">>,
  color |-> <<"c","o","l","o","r">>,
  draw_name_mode |-> <<"d","r","a","w","_","n","a","m","e","_","m","o","d","e">>,
  number_dist_labels |-> <<"n","u","m","b","e","r","_","d","i","s","t","_","l","a","b","e","l","s">>,
  image |-> <<"i","m","a","g","e">>,
  image_direction |-> <<"i","m","a","g","e","_","d","i","r","e","c","t","i","o","n">>,
  image_direction_ref |-> <<"i","m","a","g","e","_","d","i","r","e","c","t","i","o","n","_","r","e","f">>,
  visible |-> <<"v","i","s","i","b","l","e">>,
  symbol |-> <<"s","y","m","b","o","l">>,
  newsegment |-> <<"n","e","w","s","e","g","m","e","n","t">>,
  extended |-> <<"e","x","t","e","n","d","e","d">>,
  speed |-> <<"s","p","e","e","d">>,
  course |-> <<"c","o","u","r","s","e">>,
  sat |-> <<"s","a","t">>,
  fix |-> <<"f","i","x">>,
  hdop |-> <<"h","d","o","p">>,
  vdop |-> <<"v","d","o","p">>,
  pdop |-> <<"p","d","o","p">>,
  magvar |-> <<"m","a","g","v","a","r">>,
  geoidheight |-> <<"g","e","o","i","d","h","e","i","g","h","t">>,
  url |-> <<"u","r","l">>,
  url_name |-> <<"u","r","l","_","n","a","m","e">>,
  ageofdgpsdata |-> <<"a","g","e","o","f","d","g","p","s","d","a","t","a">>,
  dgpsid |-> <<"d","g","p","s","i","d">> ]

TYPENAME == [
  track |-> <<"t","r","a","c","k">>,
  trackend |-> <<"t","r","a","c","k","e","n","d">>,
  trackpoint |-> <<"t","r","a","c","k","p","o","i","n","t">>,
  waypoint |-> <<"w","a","y","p","o","i","n","t">>,
  route |-> <<"r","o","u","t","e">>,
  routeend |-> <<"r","o","u","t","e","e","n","d">>,
  routepoint |-> <<"r","o","u","t","e","p","o","i","n","t">>,
  waypointlist |-> <<"w","a","y","p","o","i","n","t","l","i","s","t">>,
  waypointlistend |-> <<"w","a","y","p","o","i","n","t","l","i","s","t","e","n","d">> ]

EndLayerData == <<"~","E","n","d","L","a","y","e","r","D","a","t","a">>

GPSPOINT_TYPE_NONE == 0
GPSPOINT_TYPE_WAYPOINT == 1
GPSPOINT_TYPE_TRACKPOINT == 2
GPSPOINT_TYPE_ROUTEPOINT == 3
GPSPOINT_TYPE_TRACK == 4
GPSPOINT_TYPE_TRACK_END == 5
GPSPOINT_TYPE_ROUTE == 6
GPSPOINT_TYPE_ROUTE_END == 7

WP_IMAGE_DIRECTION_REF_TRUE == 0

(***************************************************************************)
(* Numbers.  A gdouble is NAN or a fixed-point value with FracDigits       *)
(* decimals; g_ascii_strtod and atoi read from a pointer into the line     *)
(* buffer up to the first byte that cannot continue the number.            *)
(***************************************************************************)
FracDigits == 6

RECURSIVE Pow10(_)
Pow10(n) == IF n <= 0 THEN 1 ELSE 10 * Pow10(n - 1)

NAN == [nan |-> TRUE, v |-> 0]
Dbl(m) == [nan |-> FALSE, v |-> m]
isnan(d) == d.nan

\* the first offset of lo..hi whose character is not a space, -1 when there
\* is none (the search is split in halves: a run of spaces may be as long as
\* the line buffer)
RECURSIVE first_nonspace(_, _, _)
first_nonspace(buf, lo, hi) ==
  IF lo > hi THEN -1
  ELSE IF lo = hi THEN (IF isspace(At(buf, lo)) THEN -1 ELSE lo)
  ELSE LET mid == (lo + hi) \div 2
           l == first_nonspace(buf, lo, mid)
       IN IF l # -1 THEN l ELSE first_nonspace(buf, mid + 1, hi)

SkipSpace(buf, p) ==
  IF isspace(At(buf, p)) THEN first_nonspace(buf, p + 1, Len(buf)) ELSE p

\* the run of decimal digits at p: [p |-> the offset after it, v |-> its value, n |-> its length]
RECURSIVE ScanDigits(_, _, _, _)
ScanDigits(buf, p, v, n) ==
  IF isdigit(At(buf, p))
    THEN ScanDigits(buf, p + 1, 10 * v + DigitVal(At(buf, p)), n + 1)
    ELSE [p |-> p, v |-> v, n |-> n]

\* the first FracDigits digits of a fraction, as a count of 10^-FracDigits
RECURSIVE ScanFraction(_, _, _, _)
ScanFraction(buf, p, v, n) ==
  IF isdigit(At(buf, p))
    THEN IF n < FracDigits
           THEN ScanFraction(buf, p + 1, 10 * v + DigitVal(At(buf, p)), n + 1)
           ELSE ScanFraction(buf, p + 1, v, n)
    ELSE v * Pow10(FracDigits - n)

g_ascii_strtod(buf, value) ==
  LET p0 == SkipSpace(buf, value)
      neg == At(buf, p0) = "-"
      p1 == IF At(buf, p0) \in {"-", "+"} THEN p0 + 1 ELSE p0
      ip == ScanDigits(buf, p1, 0, 0)
      fr == IF At(buf, ip.p) = "." THEN ScanFraction(buf, ip.p + 1, 0, 0) ELSE 0
      m == ip.v * Pow10(FracDigits) + fr
  IN Dbl(IF neg THEN 0 - m ELSE m)

atoi(buf, value) ==
  LET p0 == SkipSpace(buf, value)
      neg == At(buf, p0) = "-"
      p1 == IF At(buf, p0) \in {"-", "+"} THEN p0 + 1 ELSE p0
      ip == ScanDigits(buf, p1, 0, 0)
  IN IF neg THEN 0 - ip.v ELSE ip.v

\* the conversion of an int to guint keeps the 32 bits; a guint is held as
\* the int with the same bits (the code only tests it against 0 and prints
\* it with %d)
guint(n) == n

(***************************************************************************)
(* Escaping codec.                                                         *)
(***************************************************************************)
\* the second loop of slashdup: str[i..] appended to rv
RECURSIVE slashdup_copy(_, _, _)
slashdup_copy(str, i, rv) ==
  IF i >= strlen(str) THEN rv
  ELSE LET c == At(str, i)
           rv1 == IF c = BSL \/ c = DQ THEN Append(rv, BSL) ELSE rv
           rv2 == Append(rv1, IF c = "\n" \/ c = "\r" THEN " " ELSE c)
       IN slashdup_copy(str, i + 1, rv2)

\* slashdup that escapes the double quotes only
RECURSIVE slashdup_quotes_only(_)
slashdup_quotes_only(str) ==
  IF str = <<>> THEN <<>>
  ELSE (IF Head(str) = DQ THEN <<BSL, DQ>>
        ELSE IF Head(str) = "\n" \/ Head(str) = "\r" THEN <<" ">>
        ELSE <<Head(str)>>) \o slashdup_quotes_only(Tail(str))

slashdup(str) == slashdup_copy(str, 0, <<>>)

\* the first loop of deslashndup: [i, bs_count] when it ends
\* a count that takes every backslash of the span for an escape marker
RECURSIVE deslash_count_every(_, _, _, _, _)
deslash_count_every(buf, str, len, i, bs_count) ==
  IF i < len
    THEN IF At(buf, str + i) = BSL
           THEN deslash_count_every(buf, str, len, i + 1, bs_count + 1)
           ELSE deslash_count_every(buf, str, len, i + 1, bs_count)
    ELSE [i |-> i, bs_count |-> bs_count]

RECURSIVE deslash_count(_, _, _, _, _)
deslash_count(buf, str, len, i, bs_count) ==
  IF i < len
    THEN IF At(buf, str + i) = BSL
           THEN deslash_count(buf, str, len, i + 2, bs_count + 1)
           ELSE deslash_count(buf, str, len, i + 1, bs_count)
    ELSE [i |-> i, bs_count |-> bs_count]

\* the second loop of deslashndup: the bytes written to rv
RECURSIVE deslash_copy(_, _, _, _, _, _, _)
deslash_copy(buf, str, len, new_len, i, backslash, rv) ==
  IF i < len /\ Len(rv) < new_len
    THEN IF At(buf, str + i) = BSL /\ ~backslash
           THEN deslash_copy(buf, str, len, new_len, i + 1, TRUE, rv)
           ELSE deslash_copy(buf, str, len, new_len, i + 1, FALSE,
                             Append(rv, At(buf, str + i)))
    ELSE rv

\* deslashndup that returns an empty string, not NULL, for a span of length 0
deslashndup_empty(buf, str, len16) ==
  LET len == len16 % 65536
  IN IF len < 1 THEN <<>>
     ELSE LET c == deslash_count(buf, str, len, 0, 0)
              bs_count == IF At(buf, str + c.i - 1) = BSL
                             /\ (len = 1 \/ At(buf, str + c.i - 2) # BSL)
                            THEN c.bs_count - 1 ELSE c.bs_count
              new_len == len - bs_count
              rv == deslash_copy(buf, str, len, new_len, 0, FALSE, <<>>)
          IN rv \o [k \in 1..(new_len - Len(rv)) |-> UNINIT]

\* deslashndup ( buf + str, len ); bytes of the result that the copy loop
\* never wrote are UNINIT
deslashndup(buf, str, len16) ==
  LET len == len16 % 65536
  IN IF len < 1 THEN NullStr
     ELSE LET c == deslash_count(buf, str, len, 0, 0)
              bs_count == IF At(buf, str + c.i - 1) = BSL
                             /\ (len = 1 \/ At(buf, str + c.i - 2) # BSL)
                            THEN c.bs_count - 1 ELSE c.bs_count
              new_len == len - bs_count
              rv == deslash_copy(buf, str, len, new_len, 0, FALSE, <<>>)
          IN rv \o [k \in 1..(new_len - Len(rv)) |-> UNINIT]

(***************************************************************************)
(* Reader state.  line holds the static line_* variables (field x is       *)
(* line_x); tracks holds every VikTrack handed to the layer, in insertion  *)
(* order (tracks and routes, told apart by is_route), waypoints every      *)
(* VikWaypoint; current_track is 0 (NULL) or the index of a track.  hist   *)
(* records the chunks fgets has returned so far, by name; the lineno of an *)
(* entity is the number of the chunk that created it, and nrev counts the  *)
(* calls of g_list_reverse on a track's point list.                        *)
(***************************************************************************)
VARIABLES pc, line, current_track, tracks, waypoints, have_read_something,
          result, hist

reader_vars == <<pc, line, current_track, tracks, waypoints,
                 have_read_something, result, hist>>

(***************************************************************************)
(* Codec state: a string handed to slashdup (esc_in), the text it returns  *)
(* (esc_text) and what deslashndup makes of that text (esc_out).           *)
(***************************************************************************)
VARIABLES esc_pc, esc_in, esc_text, esc_out

codec_vars == <<esc_pc, esc_in, esc_text, esc_out>>

(***************************************************************************)
(* Writer state: the layer handed to a_gpspoint_write_file (its waypoints, *)
(* tracks and routes, each in the order the layer lists them), and the     *)
(* bytes of the file that have been written and not yet read back.         *)
(***************************************************************************)
VARIABLES wr_pc, layer, file

writer_vars == <<wr_pc, layer, file>>

(***************************************************************************)
(* The file handed to a_gpspoint_read_file when it is not one the writer   *)
(* has just written: given names its record line, [type, toks], the type   *)
(* of the line and the fields that follow the type field.                  *)
(***************************************************************************)
VARIABLES given

(***************************************************************************)
(* Two invocations of a_gpspoint_read_file that are active together, each  *)
(* on its own layer and file.  par[r] holds what is local to invocation r: *)
(* its position, the lines of its file (input, by name) and how many it    *)
(* has read (pos), its have_read_something and result, and the waypoints   *)
(* of its layer.  The static line_* variables (line) and current_track are *)
(* the same objects for both; tracks holds the VikTrack of both layers,    *)
(* current_track pointing into it, and owner[k] is the layer tracks[k] was *)
(* added to.                                                               *)
(***************************************************************************)
VARIABLES par, owner

aux_vars == <<given, par, owner>>

vars == <<reader_vars, codec_vars, writer_vars, aux_vars>>

\* the initializers of the static line_* variables
line_static_init == [
  type |-> GPSPOINT_TYPE_NONE,
  latlon |-> [lat |-> Dbl(0), lon |-> Dbl(0)],
  name |-> NullStr, comment |-> NullStr, description |-> NullStr,
  source |-> NullStr, number |-> 0, xtype |-> NullStr, color |-> NullStr,
  name_label |-> 0, dist_label |-> 0, image |-> NullStr, symbol |-> NullStr,
  url |-> NullStr, url_name |-> NullStr,
  image_direction |-> NAN,
  image_direction_ref |-> WP_IMAGE_DIRECTION_REF_TRUE,
  newsegment |-> FALSE, timestamp |-> NAN, altitude |-> NAN, visible |-> TRUE,
  extended |-> FALSE, speed |-> NAN, course |-> NAN, magvar |-> NAN,
  geoidheight |-> NAN, sat |-> 0, fix |-> 0, hdop |-> NAN, vdop |-> NAN,
  pdop |-> NAN, ageofdgpsdata |-> NAN, dgpsid |-> 0 ]

(***************************************************************************)
(* Field dispatcher.                                                       *)
(***************************************************************************)
\* a comparison over the length of the key read only, so that a key that
\* is the beginning of a known key is taken for it
KeyIs_prefix(buf, key, key_len, lit) ==
  strncasecmp0(buf, key, lit, key_len)

KeyIs(buf, key, key_len, lit) ==
  key_len = Len(lit) /\ strncasecmp0(buf, key, lit, key_len)

\* a matcher that compares the length of the type name only, so that a
\* value that merely begins with a type name is taken for it
type_of_value_prefix(buf, value, value_len) ==
  IF value = NULLP THEN GPSPOINT_TYPE_NONE
  ELSE IF value_len >= 10 /\ strncasecmp0(buf, value, TYPENAME.trackpoint, 10)
    THEN GPSPOINT_TYPE_TRACKPOINT
  ELSE IF value_len >= 10 /\ strncasecmp0(buf, value, TYPENAME.routepoint, 10)
    THEN GPSPOINT_TYPE_ROUTEPOINT
  ELSE IF value_len >= 8 /\ strncasecmp0(buf, value, TYPENAME.trackend, 8)
    THEN GPSPOINT_TYPE_TRACK_END
  ELSE IF value_len >= 8 /\ strncasecmp0(buf, value, TYPENAME.routeend, 8)
    THEN GPSPOINT_TYPE_ROUTE_END
  ELSE IF value_len >= 8 /\ strncasecmp0(buf, value, TYPENAME.waypoint, 8)
    THEN GPSPOINT_TYPE_WAYPOINT
  ELSE IF value_len >= 5 /\ strncasecmp0(buf, value, TYPENAME.track, 5)
    THEN GPSPOINT_TYPE_TRACK
  ELSE IF value_len >= 5 /\ strncasecmp0(buf, value, TYPENAME.route, 5)
    THEN GPSPOINT_TYPE_ROUTE
  ELSE GPSPOINT_TYPE_NONE

\* the value of line_type for a type field
type_of_value(buf, value, value_len) ==
  IF value = NULLP THEN GPSPOINT_TYPE_NONE
  ELSE IF value_len = 5 /\ strncasecmp0(buf, value, TYPENAME.track, value_len)
    THEN GPSPOINT_TYPE_TRACK
  ELSE IF value_len = 8 /\ strncasecmp0(buf, value, TYPENAME.trackend, value_len)
    THEN GPSPOINT_TYPE_TRACK_END
  ELSE IF value_len = 10 /\ strncasecmp0(buf, value, TYPENAME.trackpoint, value_len)
    THEN GPSPOINT_TYPE_TRACKPOINT
  ELSE IF value_len = 8 /\ strncasecmp0(buf, value, TYPENAME.waypoint, value_len)
    THEN GPSPOINT_TYPE_WAYPOINT
  ELSE IF value_len = 5 /\ strncasecmp0(buf, value, TYPENAME.route, value_len)
    THEN GPSPOINT_TYPE_ROUTE
  ELSE IF value_len = 8 /\ strncasecmp0(buf, value, TYPENAME.routeend, value_len)
    THEN GPSPOINT_TYPE_ROUTE_END
  ELSE IF value_len = 10 /\ strncasecmp0(buf, value, TYPENAME.routepoint, value_len)
    THEN GPSPOINT_TYPE_ROUTEPOINT
  ELSE GPSPOINT_TYPE_NONE

gpspoint_process_key_and_value(buf, key, key_len, value, value_len, ln) ==
  LET Is(lit) == KeyIs(buf, key, key_len, lit)
      has == value # NULLP
      str == deslashndup(buf, value, value_len)
      dbl == g_ascii_strtod(buf, value)
      int == atoi(buf, value)
  IN
  IF Is(KEY.latitude) /\ has THEN [ln EXCEPT !.latlon.lat = dbl]
  ELSE IF Is(KEY.longitude) /\ has THEN [ln EXCEPT !.latlon.lon = dbl]
  ELSE IF Is(KEY.unixtime) /\ has THEN [ln EXCEPT !.timestamp = dbl]
  ELSE IF Is(KEY.altitude) /\ has THEN [ln EXCEPT !.altitude = dbl]
  ELSE IF Is(KEY.type)
    THEN [ln EXCEPT !.type = type_of_value(buf, value, value_len)]
  ELSE IF Is(KEY.name) /\ has
    THEN IF ln.name = NullStr THEN [ln EXCEPT !.name = str] ELSE ln
  ELSE IF Is(KEY.comment) /\ has
    THEN IF ln.comment = NullStr THEN [ln EXCEPT !.comment = str] ELSE ln
  ELSE IF Is(KEY.description) /\ has
    THEN IF ln.description = NullStr THEN [ln EXCEPT !.description = str] ELSE ln
  ELSE IF Is(KEY.source) /\ has
    THEN IF ln.source = NullStr THEN [ln EXCEPT !.source = str] ELSE ln
  ELSE IF Is(KEY.number) /\ has THEN [ln EXCEPT !.number = guint(int)]
  ELSE IF Is(KEY.xtype) /\ has
    THEN IF ln.xtype = NullStr THEN [ln EXCEPT !.xtype = str] ELSE ln
  ELSE IF Is(KEY.color) /\ has
    THEN IF ln.color = NullStr THEN [ln EXCEPT !.color = str] ELSE ln
  ELSE IF Is(KEY.draw_name_mode) /\ has THEN [ln EXCEPT !.name_label = int]
  ELSE IF Is(KEY.number_dist_labels) /\ has THEN [ln EXCEPT !.dist_label = int]
  ELSE IF Is(KEY.image) /\ has
    THEN IF ln.image = NullStr THEN [ln EXCEPT !.image = str] ELSE ln
  ELSE IF Is(KEY.image_direction) /\ has THEN [ln EXCEPT !.image_direction = dbl]
  ELSE IF Is(KEY.image_direction_ref) /\ has
    THEN [ln EXCEPT !.image_direction_ref = int]
  ELSE IF Is(KEY.visible) /\ has
          /\ At(buf, value) \notin {"y", "Y", "t", "T"}
    THEN [ln EXCEPT !.visible = FALSE]
  ELSE IF Is(KEY.symbol) /\ has
    THEN [ln EXCEPT !.symbol = g_strndup(buf, value, value_len)]
  ELSE IF Is(KEY.newsegment) /\ has THEN [ln EXCEPT !.newsegment = TRUE]
  ELSE IF Is(KEY.extended) /\ has THEN [ln EXCEPT !.extended = TRUE]
  ELSE IF Is(KEY.speed) /\ has THEN [ln EXCEPT !.speed = dbl]
  ELSE IF Is(KEY.course) /\ has THEN [ln EXCEPT !.course = dbl]
  ELSE IF Is(KEY.sat) /\ has THEN [ln EXCEPT !.sat = guint(int)]
  ELSE IF Is(KEY.fix) /\ has THEN [ln EXCEPT !.fix = guint(int)]
  ELSE IF Is(KEY.hdop) /\ has THEN [ln EXCEPT !.hdop = dbl]
  ELSE IF Is(KEY.vdop) /\ has THEN [ln EXCEPT !.vdop = dbl]
  ELSE IF Is(KEY.pdop) /\ has THEN [ln EXCEPT !.pdop = dbl]
  ELSE IF Is(KEY.magvar) /\ has THEN [ln EXCEPT !.magvar = dbl]
  ELSE IF Is(KEY.geoidheight) /\ has THEN [ln EXCEPT !.geoidheight = dbl]
  ELSE IF Is(KEY.url) /\ has THEN [ln EXCEPT !.url = str]
  ELSE IF Is(KEY.url_name) /\ has THEN [ln EXCEPT !.url_name = str]
  ELSE IF Is(KEY.ageofdgpsdata) /\ has THEN [ln EXCEPT !.ageofdgpsdata = dbl]
  ELSE IF Is(KEY.dgpsid) /\ has THEN [ln EXCEPT !.dgpsid = guint(int)]
  ELSE ln

\* a search that tests the character after the token too
RECURSIVE key_end_search_past(_, _, _, _)
key_end_search_past(buf, tag, len, k) ==
  IF k <= len
    THEN IF At(buf, tag + k) = "=" THEN k
         ELSE key_end_search_past(buf, tag, len, k + 1)
    ELSE k

\* the search for the key end: key_end - tag when the loop is left
RECURSIVE key_end_search(_, _, _, _)
key_end_search(buf, tag, len, k) ==
  IF k < len
    THEN IF At(buf, tag + k) = "=" THEN k
         ELSE key_end_search(buf, tag, len, k + 1)
    ELSE k

gpspoint_process_tag(buf, tag, len, ln) ==
  LET k == key_end_search(buf, tag, len, 1)
      vs0 == tag + k + 1
  IN IF k = len THEN ln
     ELSE IF k = len + 1 THEN ln
     ELSE IF At(buf, vs0) = DQ
       THEN IF At(buf, vs0 + 1) = DQ
              THEN gpspoint_process_key_and_value(buf, tag, k, NULLP, 0, ln)
            ELSE IF At(buf, tag + len - 1) = DQ
              THEN IF (tag + len - 1) - (vs0 + 1) < 0 THEN ln
                   ELSE gpspoint_process_key_and_value(buf, tag, k, vs0 + 1,
                          (tag + len - 1) - (vs0 + 1), ln)
            ELSE ln
     ELSE IF (tag + len) - vs0 < 0 THEN ln
     ELSE gpspoint_process_key_and_value(buf, tag, k, vs0, (tag + len) - vs0, ln)

\* the branch of gpspoint_process_tag the token takes: no '=' in the token,
\* the branch of key_end - tag == len + 1, a quoted value without closing
\* quote or a span below 0 (return without dispatch), or a dispatch of the
\* value span [n |-> its length]
tag_outcome(buf, tag, len) ==
  LET k == key_end_search(buf, tag, len, 1)
      vs0 == tag + k + 1
      Value(n) == [branch |-> "value", n |-> n]
      Left(b) == [branch |-> b, n |-> 0]
  IN IF k = len THEN Left("no_equals")
     ELSE IF k = len + 1 THEN Left("past_end")
     ELSE IF At(buf, vs0) = DQ
       THEN IF At(buf, vs0 + 1) = DQ THEN Value(0)
            ELSE IF At(buf, tag + len - 1) = DQ
              THEN IF (tag + len - 1) - (vs0 + 1) < 0 THEN Left("rejected")
                   ELSE Value((tag + len - 1) - (vs0 + 1))
            ELSE Left("rejected")
     ELSE IF (tag + len) - vs0 < 0 THEN Left("negative_span")
     ELSE Value((tag + len) - vs0)

(***************************************************************************)
(* Line tokenizer.                                                         *)
(***************************************************************************)
\* the inner while loop: [tag_end, inside_quote, backslash] when it ends
\* a scan that ends the tag at every space, quoted or not
RECURSIVE scan_tag_unquoted(_, _, _, _)
scan_tag_unquoted(buf, tag_end, inside_quote, backslash) ==
  IF At(buf, tag_end) # NUL /\ ~isspace(At(buf, tag_end))
    THEN scan_tag_unquoted(buf, tag_end + 1, inside_quote, backslash)
    ELSE [tag_end |-> tag_end, inside_quote |-> inside_quote,
          backslash |-> backslash]

RECURSIVE scan_tag(_, _, _, _)
scan_tag(buf, tag_end, inside_quote, backslash) ==
  IF At(buf, tag_end) # NUL /\ (~isspace(At(buf, tag_end)) \/ inside_quote)
    THEN LET c == At(buf, tag_end + 1)
         IN IF c = BSL /\ ~backslash
              THEN scan_tag(buf, tag_end + 1, inside_quote, TRUE)
            ELSE IF backslash
              THEN scan_tag(buf, tag_end + 1, inside_quote, FALSE)
            ELSE IF c = DQ
              THEN scan_tag(buf, tag_end + 1, ~inside_quote, backslash)
            ELSE scan_tag(buf, tag_end + 1, inside_quote, backslash)
    ELSE [tag_end |-> tag_end, inside_quote |-> inside_quote,
          backslash |-> backslash]

\* the for (;;) loop over one line: the tags handed to gpspoint_process_tag,
\* in order, each as [tag, len]
\* a loop that takes '#' for the first character of an ordinary token
RECURSIVE line_tags_nohash(_, _, _, _, _)
line_tags_nohash(buf, tag_start, inside_quote, backslash, acc) ==
  LET ts == SkipSpace(buf, tag_start)
  IN IF At(buf, ts) = NUL THEN acc
     ELSE LET iq == IF At(buf, ts) = DQ THEN ~inside_quote ELSE inside_quote
              s == scan_tag(buf, ts, iq, backslash)
              acc1 == Append(acc, [tag |-> ts, len |-> s.tag_end - ts])
          IN IF At(buf, s.tag_end) = NUL THEN acc1
             ELSE line_tags_nohash(buf, s.tag_end + 1, s.inside_quote,
                                   s.backslash, acc1)

RECURSIVE line_tags(_, _, _, _, _)
line_tags(buf, tag_start, inside_quote, backslash, acc) ==
  LET ts == SkipSpace(buf, tag_start)
  IN IF At(buf, ts) = NUL THEN acc
     ELSE IF At(buf, ts) = "#" THEN acc
     ELSE LET iq == IF At(buf, ts) = DQ THEN ~inside_quote ELSE inside_quote
              s == scan_tag(buf, ts, iq, backslash)
              acc1 == Append(acc, [tag |-> ts, len |-> s.tag_end - ts])
          IN IF At(buf, s.tag_end) = NUL THEN acc1
             ELSE line_tags(buf, s.tag_end + 1, s.inside_quote, s.backslash, acc1)

RECURSIVE process_tags(_, _, _, _)
process_tags(buf, tags, n, ln) ==
  IF n > Len(tags) THEN ln
  ELSE LET ln1 == gpspoint_process_tag(buf, tags[n].tag, tags[n].len, ln)
       IN IF ln1 = ln THEN process_tags(buf, tags, n + 1, ln)
          ELSE process_tags(buf, tags, n + 1, ln1)

\* the fields of the line after every tag of buf is dispatched
tokenize_line(buf, ln) ==
  process_tags(buf, line_tags(buf, 0, FALSE, FALSE, <<>>), 1, ln)

(***************************************************************************)
(* Record assembler.  S is the reader's state                              *)
(* [tracks, waypoints, current_track, have_read_something].                *)
(***************************************************************************)
\* g_list_reverse
RECURSIVE g_list_reverse(_)
g_list_reverse(l) ==
  IF l = <<>> THEN <<>> ELSE Append(g_list_reverse(Tail(l)), Head(l))

g_list_prepend(l, x) == <<x>> \o l

\* trackpoints_end that clears the pointer without reversing the list
trackpoints_end_no_reverse(S) ==
  IF S.current_track # 0
    THEN IF S.tracks[S.current_track].trackpoints # <<>>
           THEN [S EXCEPT !.current_track = 0]
           ELSE S
    ELSE S

trackpoints_end(S) ==
  IF S.current_track # 0
    THEN IF S.tracks[S.current_track].trackpoints # <<>>
           THEN [S EXCEPT
                  !.tracks[S.current_track].trackpoints = g_list_reverse(@),
                  !.tracks[S.current_track].nrev = @ + 1,
                  !.current_track = 0]
           ELSE S
    ELSE S

\* vik_coord_load_from_latlon in the lat/lon coordinate mode
vik_coord_load_from_latlon(ll) == ll

\* util_make_absolute_filename with no directory: no absolute name is made
util_make_absolute_filename(image, dirpath) == NullStr

\* vik_waypoint_new, then the fields the waypoint branch sets; extensions
\* is assigned nowhere in the branch and stays as vik_waypoint_new left it
new_waypoint(ln, lineno) ==
  LET fn == util_make_absolute_filename(ln.image, NullStr)
  IN [ name |-> ln.name,
       visible |-> ln.visible,
       altitude |-> ln.altitude,
       timestamp |-> ln.timestamp,
       speed |-> ln.speed,
       course |-> ln.course,
       magvar |-> ln.magvar,
       geoidheight |-> ln.geoidheight,
       nsats |-> ln.sat,
       fix_mode |-> ln.fix,
       hdop |-> ln.hdop,
       vdop |-> ln.vdop,
       pdop |-> ln.pdop,
       ageofdgpsdata |-> ln.ageofdgpsdata,
       dgpsid |-> ln.dgpsid,
       coord |-> vik_coord_load_from_latlon(ln.latlon),
       comment |-> ln.comment,
       description |-> ln.description,
       source |-> ln.source,
       url |-> ln.url,
       url_name |-> ln.url_name,
       type |-> ln.xtype,
       image |-> IF ln.image # NullStr
                   THEN (IF fn # NullStr THEN fn ELSE ln.image)
                   ELSE NullStr,
       image_direction |-> ln.image_direction,
       image_direction_ref |-> IF ~isnan(ln.image_direction)
                                 THEN ln.image_direction_ref
                                 ELSE WP_IMAGE_DIRECTION_REF_TRUE,
       symbol |-> ln.symbol,
       extensions |-> NullStr,
       lineno |-> lineno ]

ishex(c) == isdigit(c) \/ tolower(c) \in {"a", "b", "c", "d", "e", "f"}
HexVal(c) ==
  IF isdigit(c) THEN DigitVal(c)
  ELSE CASE tolower(c) = "a" -> 10 [] tolower(c) = "b" -> 11
         [] tolower(c) = "c" -> 12 [] tolower(c) = "d" -> 13
         [] tolower(c) = "e" -> 14 [] tolower(c) = "f" -> 15

\* gdk_color_parse of "#rrggbb": [ok, red, green, blue]; other forms fail
gdk_color_parse(str) ==
  IF Len(str) = 7 /\ str[1] = "#" /\ \A i \in 2..7 : ishex(str[i])
    THEN [ok |-> TRUE,
          red |-> (16 * HexVal(str[2]) + HexVal(str[3])) * 257,
          green |-> (16 * HexVal(str[4]) + HexVal(str[5])) * 257,
          blue |-> (16 * HexVal(str[6]) + HexVal(str[7])) * 257]
    ELSE [ok |-> FALSE, red |-> 0, green |-> 0, blue |-> 0]

\* vik_track_new, then the fields the track/route branch sets
new_track(ln, lineno) ==
  LET col == IF ln.color # NullStr THEN gdk_color_parse(ln.color)
             ELSE [ok |-> FALSE, red |-> 0, green |-> 0, blue |-> 0]
  IN [ name |-> IF ln.name = NullStr THEN <<"U","N","K">> ELSE ln.name,
       visible |-> ln.visible,
       is_route |-> (ln.type = GPSPOINT_TYPE_ROUTE),
       comment |-> ln.comment,
       description |-> ln.description,
       source |-> ln.source,
       number |-> ln.number,
       type |-> ln.xtype,
       has_color |-> col.ok,
       color |-> [red |-> col.red, green |-> col.green, blue |-> col.blue],
       draw_name_mode |-> ln.name_label,
       max_number_dist_labels |-> ln.dist_label,
       trackpoints |-> <<>>,
       lineno |-> lineno,
       nrev |-> 0 ]

\* vik_trackpoint_set_name: an empty name is stored as none
vik_trackpoint_set_name(name) == IF name = <<>> THEN NullStr ELSE name

\* the point branch with the seven fields copied whether or not
\* line_extended is set
new_trackpoint_ungated(ln, lineno) ==
  [ coord |-> vik_coord_load_from_latlon(ln.latlon),
    newsegment |-> ln.newsegment,
    timestamp |-> ln.timestamp,
    altitude |-> ln.altitude,
    name |-> vik_trackpoint_set_name(ln.name),
    speed |-> ln.speed,
    course |-> ln.course,
    nsats |-> ln.sat,
    fix_mode |-> ln.fix,
    hdop |-> ln.hdop,
    vdop |-> ln.vdop,
    pdop |-> ln.pdop,
    lineno |-> lineno ]

\* vik_trackpoint_new, then the fields the point branch sets
new_trackpoint(ln, lineno) ==
  [ coord |-> vik_coord_load_from_latlon(ln.latlon),
    newsegment |-> ln.newsegment,
    timestamp |-> ln.timestamp,
    altitude |-> ln.altitude,
    name |-> vik_trackpoint_set_name(ln.name),
    speed |-> IF ln.extended THEN ln.speed ELSE NAN,
    course |-> IF ln.extended THEN ln.course ELSE NAN,
    nsats |-> IF ln.extended THEN ln.sat ELSE 0,
    fix_mode |-> IF ln.extended THEN ln.fix ELSE 0,
    hdop |-> IF ln.extended THEN ln.hdop ELSE NAN,
    vdop |-> IF ln.extended THEN ln.vdop ELSE NAN,
    pdop |-> IF ln.extended THEN ln.pdop ELSE NAN,
    lineno |-> lineno ]

\* the waypoint branch without have_read_something = TRUE
add_waypoint_no_flag(ln, S, lineno) ==
  LET S1 == trackpoints_end(S)
  IN [S1 EXCEPT !.waypoints = Append(@, new_waypoint(ln, lineno))]

\* the waypoint branch
add_waypoint(ln, S, lineno) ==
  LET S1 == trackpoints_end(S)
  IN [S1 EXCEPT !.have_read_something = TRUE,
                !.waypoints = Append(@, new_waypoint(ln, lineno))]

\* the track/route branch without the call of trackpoints_end
add_track_no_close(ln, S, lineno) ==
  [S EXCEPT !.have_read_something = TRUE,
            !.tracks = Append(@, new_track(ln, lineno)),
            !.current_track = Len(S.tracks) + 1]

\* a track/route branch that leaves an entity that is open the current one
add_track_keep_open(ln, S, lineno) ==
  [S EXCEPT !.have_read_something = TRUE,
            !.tracks = Append(@, new_track(ln, lineno)),
            !.current_track = IF S.current_track # 0 THEN S.current_track
                              ELSE Len(S.tracks) + 1]

\* the track/route branch
add_track(ln, S, lineno) ==
  LET S1 == trackpoints_end(S)
  IN [S1 EXCEPT !.have_read_something = TRUE,
                !.tracks = Append(@, new_track(ln, lineno)),
                !.current_track = Len(S1.tracks) + 1]

\* a point branch that appends a routepoint to a route and a trackpoint to
\* a track only
add_trackpoint_same_kind(ln, S, lineno) ==
  IF (ln.type = GPSPOINT_TYPE_ROUTEPOINT) = S.tracks[S.current_track].is_route
    THEN [S EXCEPT !.have_read_something = TRUE,
                   !.tracks[S.current_track].trackpoints =
                      g_list_prepend(@, new_trackpoint(ln, lineno))]
    ELSE [S EXCEPT !.have_read_something = TRUE]

\* the trackpoint/routepoint branch
add_trackpoint(ln, S, lineno) ==
  [S EXCEPT !.have_read_something = TRUE,
            !.tracks[S.current_track].trackpoints =
               g_list_prepend(@, new_trackpoint(ln, lineno))]

\* the loop body with have_read_something set for every point line, open
\* track or not
assemble_record_flag_first(ln, S, lineno) ==
  LET S1 == IF ln.type = GPSPOINT_TYPE_TRACK_END
               \/ ln.type = GPSPOINT_TYPE_ROUTE_END
              THEN trackpoints_end(S) ELSE S
  IN IF ln.type = GPSPOINT_TYPE_WAYPOINT /\ ln.name # NullStr
       THEN add_waypoint(ln, S1, lineno)
     ELSE IF (ln.type = GPSPOINT_TYPE_TRACK \/ ln.type = GPSPOINT_TYPE_ROUTE)
             /\ ln.name # NullStr
       THEN add_track(ln, S1, lineno)
     ELSE IF ln.type = GPSPOINT_TYPE_TRACKPOINT
             \/ ln.type = GPSPOINT_TYPE_ROUTEPOINT
       THEN IF S1.current_track # 0 THEN add_trackpoint(ln, S1, lineno)
            ELSE [S1 EXCEPT !.have_read_something = TRUE]
     ELSE S1

\* what the loop body does with the fields of one line, before the reset
\* a loop body in which a start or waypoint line closes the open entity
\* before its name is looked at
assemble_record_close_first(ln, S, lineno) ==
  LET S1 == IF ln.type \in {GPSPOINT_TYPE_TRACK_END, GPSPOINT_TYPE_ROUTE_END,
                            GPSPOINT_TYPE_WAYPOINT, GPSPOINT_TYPE_TRACK,
                            GPSPOINT_TYPE_ROUTE}
              THEN trackpoints_end(S) ELSE S
  IN IF ln.type = GPSPOINT_TYPE_WAYPOINT /\ ln.name # NullStr
       THEN add_waypoint(ln, S1, lineno)
     ELSE IF (ln.type = GPSPOINT_TYPE_TRACK \/ ln.type = GPSPOINT_TYPE_ROUTE)
             /\ ln.name # NullStr
       THEN add_track(ln, S1, lineno)
     ELSE IF (ln.type = GPSPOINT_TYPE_TRACKPOINT
              \/ ln.type = GPSPOINT_TYPE_ROUTEPOINT)
             /\ S1.current_track # 0
       THEN add_trackpoint(ln, S1, lineno)
     ELSE S1

assemble_record(ln, S, lineno) ==
  LET S1 == IF ln.type = GPSPOINT_TYPE_TRACK_END
               \/ ln.type = GPSPOINT_TYPE_ROUTE_END
              THEN trackpoints_end(S) ELSE S
  IN IF ln.type = GPSPOINT_TYPE_WAYPOINT /\ ln.name # NullStr
       THEN add_waypoint(ln, S1, lineno)
     ELSE IF (ln.type = GPSPOINT_TYPE_TRACK \/ ln.type = GPSPOINT_TYPE_ROUTE)
             /\ ln.name # NullStr
       THEN add_track(ln, S1, lineno)
     ELSE IF (ln.type = GPSPOINT_TYPE_TRACKPOINT
              \/ ln.type = GPSPOINT_TYPE_ROUTEPOINT)
             /\ S1.current_track # 0
       THEN add_trackpoint(ln, S1, lineno)
     ELSE S1

\* the reset at the end of the loop body: every line_* variable the code
\* assigns there; line_latlon is not among them
line_reset(ln) ==
  [line_static_init EXCEPT !.latlon = ln.latlon]

\* the assignments at the entry of a_gpspoint_read_file
read_file_entry(ln) ==
  [ln EXCEPT !.type = GPSPOINT_TYPE_NONE,
             !.timestamp = NAN,
             !.newsegment = FALSE,
             !.image = NullStr,
             !.symbol = NullStr]

\* line_buffer[strlen(line_buffer)-1] = '\0'
chop(chunk) == SubSeq(chunk, 1, Len(chunk) - 1)

is_end_layer_data(buf) ==
  strlen(buf) >= 13 /\ strncmp0(buf, 0, EndLayerData, 13)

\* the C string in the bytes fgets put in line_buffer: the bytes before the
\* first NUL (first_nul is its position, 0 when there is none)
RECURSIVE first_nul(_, _, _)
first_nul(bytes, lo, hi) ==
  IF lo > hi THEN 0
  ELSE IF lo = hi THEN (IF bytes[lo] = NUL THEN lo ELSE 0)
  ELSE LET mid == (lo + hi) \div 2
           l == first_nul(bytes, lo, mid)
       IN IF l # 0 THEN l ELSE first_nul(bytes, mid + 1, hi)

c_str(bytes) ==
  LET z == first_nul(bytes, 1, Len(bytes))
  IN IF z = 0 THEN bytes ELSE SubSeq(bytes, 1, z - 1)

\* strlen(line_buffer)-1, the index the chop writes at
chop_index(chunk) == strlen(c_str(chunk)) - 1

(***************************************************************************)
(* Writer.  Each operator is the text its function prints to the file.     *)
(***************************************************************************)
VIKING_LINE_SIZE == 4096

Fld(key, val) == key \o <<"=", DQ>> \o val \o <<DQ>>
Sp == <<" ">>
Nl == <<"\n">>

DigitChar == <<"0", "1", "2", "3", "4", "5", "6", "7", "8", "9">>
HexChar == DigitChar \o <<"a", "b", "c", "d", "e", "f">>

\* the decimal digits of n >= 0
RECURSIVE fmt_digits(_)
fmt_digits(n) ==
  IF n < 10 THEN <<DigitChar[n + 1]>>
  ELSE Append(fmt_digits(n \div 10), DigitChar[(n % 10) + 1])

\* the last w decimal digits of n >= 0, with leading zeros
RECURSIVE fmt_fixed(_, _)
fmt_fixed(n, w) ==
  IF w <= 0 THEN <<>>
  ELSE Append(fmt_fixed(n \div 10, w - 1), DigitChar[(n % 10) + 1])

\* printf "%d"
fmt_d(n) == IF n < 0 THEN <<"-">> \o fmt_digits(0 - n) ELSE fmt_digits(n)

\* printf "%.2x" of a value below 256
fmt_02x(n) == <<HexChar[(n \div 16) + 1], HexChar[(n % 16) + 1]>>

\* the decimals of a fixed notation: six of them, and the further ones the
\* value needs
RECURSIVE fmt_decimals(_)
fmt_decimals(ds) ==
  IF Len(ds) < 6 THEN fmt_decimals(Append(ds, "0"))
  ELSE IF Len(ds) > 6 /\ ds[Len(ds)] = "0"
         THEN fmt_decimals(SubSeq(ds, 1, Len(ds) - 1))
         ELSE ds

\* a_coords_dtostr_buffer: the value in plain (non-scientific) decimal
\* notation with the period as separator, six decimals or more
a_coords_dtostr_buffer(d) ==
  IF isnan(d) THEN <<"n", "a", "n">>
  ELSE LET a == IF d.v < 0 THEN 0 - d.v ELSE d.v
           unit == Pow10(FracDigits)
       IN (IF d.v < 0 THEN <<"-">> ELSE <<>>)
            \o fmt_digits(a \div unit) \o <<".">>
            \o fmt_decimals(fmt_fixed(a % unit, FracDigits))

\* util_formatd ( "%.2f", value ): two decimals, rounded to nearest (a tie
\* goes to the even neighbour)
util_formatd(d) ==
  LET a == IF d.v < 0 THEN 0 - d.v ELSE d.v
      unit == Pow10(FracDigits - 2)
      q == a \div unit
      r == a % unit
      h == IF 2 * r > unit \/ (2 * r = unit /\ q % 2 = 1) THEN q + 1 ELSE q
  IN (IF d.v < 0 THEN <<"-">> ELSE <<>>)
       \o fmt_digits(h \div 100) \o <<".">> \o fmt_fixed(h % 100, 2)

\* g_utf8_strdown
g_utf8_strdown(str) == [i \in 1..Len(str) |-> tolower(str[i])]

\* vik_coord_to_latlon in the lat/lon coordinate mode
vik_coord_to_latlon(coord) == coord

write_double(tag, value) ==
  IF ~isnan(value)
    THEN Sp \o Fld(tag, a_coords_dtostr_buffer(value))
    ELSE <<>>

write_positive_uint(tag, value) ==
  IF value # 0 THEN Sp \o Fld(tag, fmt_d(value)) ELSE <<>>

\* a writer of string fields that does not escape the value
write_string_raw(tag, value) ==
  IF value # NullStr /\ strlen(value) # 0
    THEN Sp \o Fld(tag, value)
    ELSE <<>>

write_string(tag, value) ==
  IF value # NullStr /\ strlen(value) # 0
    THEN Sp \o Fld(tag, slashdup(value))
    ELSE <<>>

\* the image of a waypoint: with absolute file references the name is
\* written as it is stored, escaped
write_image(image) ==
  IF image # NullStr THEN Sp \o Fld(KEY.image, slashdup(image)) ELSE <<>>

a_gpspoint_write_waypoint(wp) ==
  IF wp.name = NullStr THEN <<>>
  ELSE LET ll == vik_coord_to_latlon(wp.coord)
       IN Fld(KEY.type, TYPENAME.waypoint)
            \o Sp \o Fld(KEY.latitude, a_coords_dtostr_buffer(ll.lat))
            \o Sp \o Fld(KEY.longitude, a_coords_dtostr_buffer(ll.lon))
            \o Sp \o Fld(KEY.name, slashdup(wp.name))
            \o write_double(KEY.altitude, wp.altitude)
            \o write_double(KEY.unixtime, wp.timestamp)
            \o write_double(KEY.speed, wp.speed)
            \o write_double(KEY.course, wp.course)
            \o write_double(KEY.magvar, wp.magvar)
            \o write_double(KEY.geoidheight, wp.geoidheight)
            \o write_string(KEY.comment, wp.comment)
            \o write_string(KEY.description, wp.description)
            \o write_string(KEY.source, wp.source)
            \o write_string(KEY.url, wp.url)
            \o write_string(KEY.url_name, wp.url_name)
            \o write_string(KEY.xtype, wp.type)
            \o write_positive_uint(KEY.fix, wp.fix_mode)
            \o write_positive_uint(KEY.sat, wp.nsats)
            \o write_double(KEY.hdop, wp.hdop)
            \o write_double(KEY.vdop, wp.vdop)
            \o write_double(KEY.pdop, wp.pdop)
            \o write_double(KEY.ageofdgpsdata, wp.ageofdgpsdata)
            \o write_positive_uint(KEY.dgpsid, wp.dgpsid)
            \o write_image(wp.image)
            \o (IF ~isnan(wp.image_direction)
                  THEN Sp \o Fld(KEY.image_direction,
                                 util_formatd(wp.image_direction))
                       \o Sp \o Fld(KEY.image_direction_ref,
                                    fmt_d(wp.image_direction_ref))
                  ELSE <<>>)
            \o (IF wp.symbol # NullStr
                  THEN Sp \o Fld(KEY.symbol, g_utf8_strdown(wp.symbol))
                  ELSE <<>>)
            \o (IF ~wp.visible THEN Sp \o Fld(KEY.visible, <<"n">>) ELSE <<>>)
            \o Nl

\* a point writer that writes the extended fields a point has whether or
\* not it writes the marker
a_gpspoint_write_trackpoint_ungated(tp, is_route) ==
  LET ll == vik_coord_to_latlon(tp.coord)
  IN Fld(KEY.type, IF is_route THEN TYPENAME.routepoint
                   ELSE TYPENAME.trackpoint)
       \o Sp \o Fld(KEY.latitude, a_coords_dtostr_buffer(ll.lat))
       \o Sp \o Fld(KEY.longitude, a_coords_dtostr_buffer(ll.lon))
       \o write_string(KEY.name, tp.name)
       \o write_double(KEY.altitude, tp.altitude)
       \o write_double(KEY.unixtime, tp.timestamp)
       \o (IF tp.newsegment THEN Sp \o Fld(KEY.newsegment, <<"y", "e", "s">>)
           ELSE <<>>)
       \o (IF ~isnan(tp.speed) \/ ~isnan(tp.course) \/ tp.nsats > 0
             THEN Sp \o Fld(KEY.extended, <<"y", "e", "s">>)
             ELSE <<>>)
       \o write_double(KEY.speed, tp.speed)
       \o write_double(KEY.course, tp.course)
       \o write_positive_uint(KEY.sat, tp.nsats)
       \o write_positive_uint(KEY.fix, tp.fix_mode)
       \o write_double(KEY.hdop, tp.hdop)
       \o write_double(KEY.vdop, tp.vdop)
       \o write_double(KEY.pdop, tp.pdop)
       \o Nl

a_gpspoint_write_trackpoint(tp, is_route) ==
  LET ll == vik_coord_to_latlon(tp.coord)
  IN Fld(KEY.type, IF is_route THEN TYPENAME.routepoint
                   ELSE TYPENAME.trackpoint)
       \o Sp \o Fld(KEY.latitude, a_coords_dtostr_buffer(ll.lat))
       \o Sp \o Fld(KEY.longitude, a_coords_dtostr_buffer(ll.lon))
       \o write_string(KEY.name, tp.name)
       \o write_double(KEY.altitude, tp.altitude)
       \o write_double(KEY.unixtime, tp.timestamp)
       \o (IF tp.newsegment THEN Sp \o Fld(KEY.newsegment, <<"y", "e", "s">>)
           ELSE <<>>)
       \o (IF ~isnan(tp.speed) \/ ~isnan(tp.course) \/ tp.nsats > 0
             THEN Sp \o Fld(KEY.extended, <<"y", "e", "s">>)
                  \o write_double(KEY.speed, tp.speed)
                  \o write_double(KEY.course, tp.course)
                  \o write_positive_uint(KEY.sat, tp.nsats)
                  \o write_positive_uint(KEY.fix, tp.fix_mode)
                  \o write_double(KEY.hdop, tp.hdop)
                  \o write_double(KEY.vdop, tp.vdop)
                  \o write_double(KEY.pdop, tp.pdop)
             ELSE <<>>)
       \o Nl

\* g_list_foreach ( trk->trackpoints, a_gpspoint_write_trackpoint, ... )
RECURSIVE write_trackpoints(_, _)
write_trackpoints(tps, is_route) ==
  IF tps = <<>> THEN <<>>
  ELSE a_gpspoint_write_trackpoint(Head(tps), is_route)
         \o write_trackpoints(Tail(tps), is_route)

a_gpspoint_write_track(trk) ==
  IF trk.name = NullStr THEN <<>>
  ELSE Fld(KEY.type, IF trk.is_route THEN TYPENAME.route ELSE TYPENAME.track)
         \o Sp \o Fld(KEY.name, slashdup(trk.name))
         \o write_string(KEY.comment, trk.comment)
         \o write_string(KEY.description, trk.description)
         \o write_string(KEY.source, trk.source)
         \o write_positive_uint(KEY.number, trk.number)
         \o write_string(KEY.xtype, trk.type)
         \o (IF trk.has_color
               THEN Sp \o KEY.color \o <<"=", "#">>
                    \o fmt_02x(trk.color.red \div 256)
                    \o fmt_02x(trk.color.green \div 256)
                    \o fmt_02x(trk.color.blue \div 256)
               ELSE <<>>)
         \o write_positive_uint(KEY.draw_name_mode, trk.draw_name_mode)
         \o write_positive_uint(KEY.number_dist_labels,
                                trk.max_number_dist_labels)
         \o (IF ~trk.visible THEN Sp \o Fld(KEY.visible, <<"n">>) ELSE <<>>)
         \o Nl
         \o write_trackpoints(trk.trackpoints, trk.is_route)
         \o Fld(KEY.type, IF trk.is_route THEN TYPENAME.routeend
                          ELSE TYPENAME.trackend)
         \o Nl

\* the waypoints written last to first
RECURSIVE write_waypoints_reversed(_)
write_waypoints_reversed(wps) ==
  IF wps = <<>> THEN <<>>
  ELSE write_waypoints_reversed(Tail(wps)) \o a_gpspoint_write_waypoint(Head(wps))

RECURSIVE write_waypoints(_)
write_waypoints(wps) ==
  IF wps = <<>> THEN <<>>
  ELSE a_gpspoint_write_waypoint(Head(wps)) \o write_waypoints(Tail(wps))

RECURSIVE write_tracks(_)
write_tracks(trks) ==
  IF trks = <<>> THEN <<>>
  ELSE a_gpspoint_write_track(Head(trks)) \o write_tracks(Tail(trks))

\* a writer that writes the routes before the tracks
a_gpspoint_write_file_routes_first(L) ==
  Fld(KEY.type, TYPENAME.waypointlist) \o Nl
    \o write_waypoints(L.waypoints)
    \o Fld(KEY.type, TYPENAME.waypointlistend) \o Nl
    \o write_tracks(L.routes)
    \o write_tracks(L.tracks)

\* the bytes a_gpspoint_write_file writes for the layer L
a_gpspoint_write_file(L) ==
  Fld(KEY.type, TYPENAME.waypointlist) \o Nl
    \o write_waypoints(L.waypoints)
    \o Fld(KEY.type, TYPENAME.waypointlistend) \o Nl
    \o write_tracks(L.tracks)
    \o write_tracks(L.routes)

\* the least i in lo..hi with f[i] a newline, or 0 when there is none
RECURSIVE first_newline(_, _, _)
first_newline(f, lo, hi) ==
  IF lo > hi THEN 0
  ELSE IF lo = hi THEN (IF f[lo] = "\n" THEN lo ELSE 0)
  ELSE LET mid == (lo + hi) \div 2
           l == first_newline(f, lo, mid)
       IN IF l # 0 THEN l ELSE first_newline(f, mid + 1, hi)

\* fgets ( line_buffer, VIKING_LINE_SIZE, f ): the chunk it reads from the
\* bytes f, through the first newline or as far as the buffer goes
fgets(f) ==
  LET lim == IF Len(f) < VIKING_LINE_SIZE - 1 THEN Len(f)
             ELSE VIKING_LINE_SIZE - 1
      nl == first_newline(f, 1, lim)
  IN SubSeq(f, 1, IF nl # 0 THEN nl ELSE lim)

(***************************************************************************)
(* The input of the reader: the chunks fgets may return.                   *)
(***************************************************************************)

\* the chunks of the input, by name
LINES == [
  track_T |-> Fld(KEY.type, TYPENAME.track) \o Sp \o Fld(KEY.name, <<"T">>) \o Nl,
  route_R |-> Fld(KEY.type, TYPENAME.route) \o Sp \o Fld(KEY.name, <<"R">>) \o Nl,
  track_noname |-> Fld(KEY.type, TYPENAME.track) \o Nl,
  trackpoint |-> Fld(KEY.type, TYPENAME.trackpoint) \o Sp
                   \o Fld(KEY.latitude, <<"1">>) \o Nl,
  routepoint |-> Fld(KEY.type, TYPENAME.routepoint) \o Sp
                   \o Fld(KEY.longitude, <<"2">>) \o Nl,
  trackend |-> Fld(KEY.type, TYPENAME.trackend) \o Nl,
  routeend |-> Fld(KEY.type, TYPENAME.routeend) \o Nl,
  waypoint_W |-> Fld(KEY.type, TYPENAME.waypoint) \o Sp \o Fld(KEY.name, <<"W">>) \o Nl,
  waypoint_noname |-> Fld(KEY.type, TYPENAME.waypoint) \o Nl,
  comment |-> <<"#", " ", "c">> \o Nl,
  waypointlist |-> Fld(KEY.type, TYPENAME.waypointlist) \o Nl,
  EndLayerData |-> EndLayerData \o Nl ]

InputLines == DOMAIN LINES

\* the tags of each chunk, tokenized once
TAGS ==
  [c \in InputLines |-> line_tags(chop(LINES[c]), 0, FALSE, FALSE, <<>>)]

(***************************************************************************)
(* The reader as a state machine: a_gpspoint_read_file.                    *)
(***************************************************************************)
ReaderState ==
  [tracks |-> tracks, waypoints |-> waypoints,
   current_track |-> current_track,
   have_read_something |-> have_read_something]

ReaderInit ==
  /\ pc = "idle"
  /\ line = line_static_init
  /\ current_track = 0
  /\ tracks = <<>>
  /\ waypoints = <<>>
  /\ have_read_something = FALSE
  /\ result = FALSE
  /\ hist = <<>>

CodecIdle ==
  /\ esc_pc = "idle"
  /\ esc_in = <<>>
  /\ esc_text = <<>>
  /\ esc_out = <<>>

WriterIdle ==
  /\ wr_pc = "idle"
  /\ layer = [waypoints |-> <<>>, tracks |-> <<>>, routes |-> <<>>]
  /\ file = <<>>

NoFile == [type |-> "none", toks |-> <<>>]

Readers == {1, 2}

NoReads ==
  [r \in Readers |-> [pc |-> "off", input |-> <<>>, pos |-> 0,
                      have_read_something |-> FALSE, result |-> FALSE,
                      waypoints |-> <<>>]]

AuxIdle == given = NoFile /\ par = NoReads /\ owner = <<>>

Init == ReaderInit /\ CodecIdle /\ WriterIdle /\ AuxIdle

\* the entry of a_gpspoint_read_file, up to the first fgets
ReadBegin ==
  /\ pc = "idle"
  /\ pc' = "read"
  /\ line' = read_file_entry(line)
  /\ current_track' = 0
  /\ have_read_something' = FALSE
  /\ UNCHANGED <<tracks, waypoints, result, hist>>
  /\ UNCHANGED <<codec_vars, writer_vars, aux_vars>>

\* the body of the while loop for the chopped chunk buf, which is not the
\* end marker and whose tags are tags
LoopBody(buf, tags, chunk) ==
  \E ln \in {process_tags(buf, tags, 1, line)} :
    \E S \in {assemble_record(ln, ReaderState, Len(hist) + 1)} :
      /\ tracks' = S.tracks
      /\ waypoints' = S.waypoints
      /\ current_track' = S.current_track
      /\ have_read_something' = S.have_read_something
      /\ line' = line_reset(ln)
      /\ hist' = Append(hist, chunk)

\* one pass of the while loop for a chunk that is not the end marker
ReadLine ==
  /\ pc = "read"
  /\ Len(hist) < MaxLines
  /\ \E chunk \in InputLines :
       \E buf \in {chop(LINES[chunk])} :
         /\ ~is_end_layer_data(buf)
         /\ LoopBody(buf, TAGS[chunk], chunk)
  /\ UNCHANGED <<pc, result>>
  /\ UNCHANGED <<codec_vars, writer_vars, aux_vars>>

\* a return without the closing call of trackpoints_end
read_return_no_close(S) == S

\* a return that reports that something was read, whatever was read
read_return_true(S) == [trackpoints_end(S) EXCEPT !.have_read_something = TRUE]

\* the return of a_gpspoint_read_file
read_return(S) == trackpoints_end(S)

\* the chunk is the end marker: leave the loop and return
ReadEndLayerData ==
  /\ pc = "read"
  /\ \E chunk \in InputLines :
       \E S \in {read_return([ReaderState EXCEPT !.have_read_something = TRUE])} :
          /\ is_end_layer_data(chop(LINES[chunk]))
          /\ tracks' = S.tracks
          /\ waypoints' = S.waypoints
          /\ current_track' = S.current_track
          /\ have_read_something' = S.have_read_something
          /\ result' = S.have_read_something
          /\ hist' = Append(hist, chunk)
  /\ pc' = "done"
  /\ UNCHANGED line
  /\ UNCHANGED <<codec_vars, writer_vars, aux_vars>>

\* fgets returns NULL: leave the loop and return
ReadEOF ==
  /\ pc = "read"
  /\ \E S \in {read_return(ReaderState)} :
        /\ tracks' = S.tracks
        /\ waypoints' = S.waypoints
        /\ current_track' = S.current_track
        /\ have_read_something' = S.have_read_something
        /\ result' = S.have_read_something
  /\ pc' = "done"
  /\ UNCHANGED <<line, hist>>
  /\ UNCHANGED <<codec_vars, writer_vars, aux_vars>>

Next == ReadBegin \/ ReadLine \/ ReadEndLayerData \/ ReadEOF

Spec == Init /\ [][Next]_vars

(***************************************************************************)
(* The codec on its own: every string of at most MaxStrLen characters of   *)
(* CodecChars is escaped, and the escaped text unescaped over its whole    *)
(* length.                                                                 *)
(***************************************************************************)
CodecChars == {"a", " ", DQ, BSL, "\n", "\r"}

RECURSIVE StringsUpTo(_, _)
StringsUpTo(chars, n) ==
  IF n = 0 THEN {<<>>}
  ELSE LET shorter == StringsUpTo(chars, n - 1)
       IN shorter \cup {Append(s, c) : s \in shorter, c \in chars}

CodecInit ==
  /\ ReaderInit
  /\ WriterIdle
  /\ AuxIdle
  /\ esc_pc = "raw"
  /\ esc_in \in StringsUpTo(CodecChars, MaxStrLen)
  /\ esc_text = <<>>
  /\ esc_out = <<>>

Escape ==
  /\ esc_pc = "raw"
  /\ esc_text' = slashdup(esc_in)
  /\ esc_pc' = "escaped"
  /\ UNCHANGED <<esc_in, esc_out>>
  /\ UNCHANGED <<reader_vars, writer_vars, aux_vars>>

Unescape ==
  /\ esc_pc = "escaped"
  /\ esc_out' = deslashndup(esc_text, 0, strlen(esc_text))
  /\ esc_pc' = "done"
  /\ UNCHANGED <<esc_in, esc_text>>
  /\ UNCHANGED <<reader_vars, writer_vars, aux_vars>>

\* the characters that follow a value span in the line buffer: the closing
\* quote of a quoted value, the blank or the end of string after a token
SpanFollowers == {DQ, " ", NUL}

\* the dispatcher's call deslashndup ( value, value_len ) on a span of the
\* line as it stands, backslashes unpaired or not
UnescapeSpan ==
  /\ esc_pc = "raw"
  /\ \E c \in SpanFollowers :
       esc_out' = deslashndup(esc_in \o <<c>>, 0, Len(esc_in))
  /\ esc_pc' = "unescaped"
  /\ UNCHANGED <<esc_in, esc_text>>
  /\ UNCHANGED <<reader_vars, writer_vars, aux_vars>>

CodecNext == Escape \/ Unescape \/ UnescapeSpan

SpecCodec == CodecInit /\ [][CodecNext]_vars

(***************************************************************************)
(* Writing a layer and reading the file back: a_gpspoint_write_file on a   *)
(* layer of Layers, then a_gpspoint_read_file on the bytes written.        *)
(***************************************************************************)
\* gdouble values: i.cc, i.mmm and the negative of a value
Dec(i, c) == Dbl(i * Pow10(FracDigits) + c * Pow10(FracDigits - 2))
Milli(i, m) == Dbl(i * Pow10(FracDigits) + m * Pow10(FracDigits - 3))
Neg(d) == Dbl(0 - d.v)

RtChars == {"a", " ", DQ, BSL, "\n"}
RtStrings == StringsUpTo(RtChars, MaxStrLen) \ {<<>>}
\* strings with a tab, a carriage return, a trailing backslash after a tab
RtExtra == {<<"a", "\t", "b">>, <<"\t", BSL>>, <<"\r", "a">>}

\* a waypoint with every field present: its strings are s, its symbol sym,
\* its image direction dir, its extensions ext
FullWaypoint(s, sym, dir, ext, vis) ==
  [ name |-> s, visible |-> vis,
    altitude |-> Dec(1, 50), timestamp |-> Dec(2, 0), speed |-> Dec(3, 25),
    course |-> Dec(4, 0), magvar |-> Neg(Dec(5, 50)),
    geoidheight |-> Dec(6, 0), nsats |-> 3, fix_mode |-> 2,
    hdop |-> Dec(7, 0), vdop |-> Dec(8, 0), pdop |-> Dec(9, 0),
    ageofdgpsdata |-> Dec(10, 0), dgpsid |-> 4,
    coord |-> [lat |-> Dec(48, 85), lon |-> Neg(Dec(2, 29))],
    comment |-> s, description |-> s, source |-> s, url |-> s,
    url_name |-> s, type |-> s, image |-> s,
    image_direction |-> dir, image_direction_ref |-> 1,
    symbol |-> sym, extensions |-> ext ]

\* a waypoint with nothing but its name and position
BareWaypoint(s) ==
  [ name |-> s, visible |-> TRUE,
    altitude |-> NAN, timestamp |-> NAN, speed |-> NAN, course |-> NAN,
    magvar |-> NAN, geoidheight |-> NAN, nsats |-> 0, fix_mode |-> 0,
    hdop |-> NAN, vdop |-> NAN, pdop |-> NAN, ageofdgpsdata |-> NAN,
    dgpsid |-> 0,
    coord |-> [lat |-> Dec(48, 85), lon |-> Neg(Dec(2, 29))],
    comment |-> NullStr, description |-> NullStr, source |-> NullStr,
    url |-> NullStr, url_name |-> NullStr, type |-> NullStr,
    image |-> NullStr, image_direction |-> NAN,
    image_direction_ref |-> WP_IMAGE_DIRECTION_REF_TRUE,
    symbol |-> NullStr, extensions |-> NullStr ]

\* the k-th point of a track, with every field present
FullPoint(s, k) ==
  [ coord |-> [lat |-> Dec(k, 10), lon |-> Neg(Dec(k, 20))],
    newsegment |-> (k = 1), timestamp |-> Dec(k, 0), altitude |-> Dec(k, 50),
    name |-> s, speed |-> Dec(k, 25), course |-> Dec(k, 75),
    nsats |-> k, fix_mode |-> 3,
    hdop |-> Dec(k, 1), vdop |-> Dec(k, 2), pdop |-> Dec(k, 3) ]

BarePoint(k) ==
  [ coord |-> [lat |-> Dec(k, 10), lon |-> Neg(Dec(k, 20))],
    newsegment |-> FALSE, timestamp |-> NAN, altitude |-> NAN,
    name |-> NullStr, speed |-> NAN, course |-> NAN, nsats |-> 0,
    fix_mode |-> 0, hdop |-> NAN, vdop |-> NAN, pdop |-> NAN ]

\* a track or route with every field present and n points
FullTrack(s, is_route, col, vis, n) ==
  [ name |-> s, visible |-> vis, is_route |-> is_route,
    comment |-> s, description |-> s, source |-> s, number |-> 7,
    type |-> s, has_color |-> TRUE, color |-> col,
    draw_name_mode |-> 1, max_number_dist_labels |-> 2,
    trackpoints |-> [k \in 1..n |-> FullPoint(s, k)] ]

BareTrack(s, is_route, n) ==
  [ name |-> s, visible |-> TRUE, is_route |-> is_route,
    comment |-> NullStr, description |-> NullStr, source |-> NullStr,
    number |-> 0, type |-> NullStr, has_color |-> FALSE,
    color |-> [red |-> 0, green |-> 0, blue |-> 0],
    draw_name_mode |-> 0, max_number_dist_labels |-> 0,
    trackpoints |-> [k \in 1..n |-> BarePoint(k)] ]

Pin == <<"p", "i", "n">>
Directions == {Dec(1, 25), Milli(0, 126)}
Symbols == {Pin, <<"P", "i", "n">>}
Extensions == {NullStr, <<"x">>}
\* #123456 as gdk_color_parse stores it, and a colour with other low bytes
Colors == {[red |-> 18 * 257, green |-> 52 * 257, blue |-> 86 * 257],
           [red |-> 18 * 256 + 52, green |-> 0, blue |-> 65535]}

FullLayer(s, sym, dir, ext, vis, col) ==
  [ waypoints |-> <<FullWaypoint(s, sym, dir, ext, vis)>>,
    tracks |-> <<FullTrack(s, FALSE, col, vis, 2)>>,
    routes |-> <<FullTrack(s, TRUE, col, vis, 1)>> ]

\* a layer whose track has a point with fix mode and dilution values but no
\* speed, course or satellite count
DopOnlyLayer ==
  [ waypoints |-> <<>>,
    tracks |-> <<[BareTrack(<<"a">>, FALSE, 0) EXCEPT
                    !.trackpoints =
                       <<[BarePoint(1) EXCEPT !.fix_mode = 3,
                                              !.hdop = Dec(1, 50),
                                              !.vdop = Dec(2, 0),
                                              !.pdop = Dec(2, 50)]>>]>>,
    routes |-> <<>> ]

\* a layer whose track has a point with a speed only, one with a course
\* only and one with a satellite count only, and whose route has a point
\* with a satellite count, a fix mode and dilution values
PartialPointLayer ==
  [ waypoints |-> <<>>,
    tracks |-> <<[BareTrack(<<"a">>, FALSE, 0) EXCEPT
                    !.trackpoints =
                       <<[BarePoint(1) EXCEPT !.speed = Dec(3, 25)],
                         [BarePoint(2) EXCEPT !.course = Dec(4, 75)],
                         [BarePoint(3) EXCEPT !.nsats = 5]>>]>>,
    routes |-> <<[BareTrack(<<"b">>, TRUE, 0) EXCEPT
                    !.trackpoints =
                       <<[BarePoint(1) EXCEPT !.nsats = 4,
                                              !.fix_mode = 3,
                                              !.hdop = Dec(1, 50),
                                              !.vdop = Dec(2, 0),
                                              !.pdop = Dec(2, 50)]>>]>> ]

\* layers with three waypoints, three tracks and two routes: the names
\* <<"a">>, <<"b">>, <<"c">> in each of their orders
EntityNames == <<(<<"a">>), (<<"b">>), (<<"c">>)>>

Orders ==
  {p \in [1..3 -> 1..3] : \A i, j \in 1..3 : i # j => p[i] # p[j]}

OrderedLayer(p) ==
  [ waypoints |-> [k \in 1..3 |-> BareWaypoint(EntityNames[p[k]])],
    tracks |-> [k \in 1..3 |-> BareTrack(EntityNames[p[k]], FALSE, p[k] - 1)],
    routes |-> [k \in 1..2 |-> BareTrack(EntityNames[p[k]], TRUE, 1)] ]

Layers ==
  {[waypoints |-> <<>>, tracks |-> <<>>, routes |-> <<>>]}
    \cup {[waypoints |-> <<BareWaypoint(<<"a">>)>>,
           tracks |-> <<BareTrack(<<"a">>, FALSE, 1)>>,
           routes |-> <<BareTrack(<<"a">>, TRUE, 0)>>]}
    \cup {FullLayer(s, Pin, Dec(1, 25), <<"x">>, TRUE,
                    [red |-> 18 * 257, green |-> 52 * 257, blue |-> 86 * 257]) :
            s \in RtStrings \cup RtExtra}
    \cup {FullLayer(<<"a">>, sym, dir, ext, vis, col) :
            sym \in Symbols, dir \in Directions, ext \in Extensions,
            vis \in BOOLEAN, col \in Colors}
    \cup {[waypoints |-> <<FullWaypoint(<<"a">>, s, Dec(1, 25), <<"x">>, FALSE)>>,
           tracks |-> <<>>, routes |-> <<>>] : s \in RtStrings}
    \cup {DopOnlyLayer, PartialPointLayer}
    \cup {OrderedLayer(p) : p \in Orders}

WriterInit ==
  /\ ReaderInit
  /\ CodecIdle
  /\ AuxIdle
  /\ wr_pc = "layer"
  /\ layer \in Layers
  /\ file = <<>>

\* a_gpspoint_write_file on the layer
WriteFile ==
  /\ wr_pc = "layer"
  /\ file' = a_gpspoint_write_file(layer)
  /\ wr_pc' = "written"
  /\ UNCHANGED layer
  /\ UNCHANGED <<reader_vars, codec_vars, aux_vars>>

\* the entry of a_gpspoint_read_file on the file written
ReadBackBegin == wr_pc = "written" /\ ReadBegin

\* one pass of the while loop: fgets returns the next chunk of the file
ReadBackChunk ==
  /\ wr_pc = "written"
  /\ pc = "read"
  /\ file # <<>>
  /\ \E chunk \in {fgets(file)} :
       \E buf \in {chop(chunk)} :
         /\ file' = SubSeq(file, Len(chunk) + 1, Len(file))
         /\ IF is_end_layer_data(buf)
              THEN \E S \in {read_return([ReaderState EXCEPT
                                            !.have_read_something = TRUE])} :
                     /\ tracks' = S.tracks
                     /\ waypoints' = S.waypoints
                     /\ current_track' = S.current_track
                     /\ have_read_something' = S.have_read_something
                     /\ result' = S.have_read_something
                     /\ hist' = Append(hist, "written")
                     /\ pc' = "done"
                     /\ UNCHANGED line
              ELSE /\ \E tags \in {line_tags(buf, 0, FALSE, FALSE, <<>>)} :
                        LoopBody(buf, tags, "written")
                   /\ UNCHANGED <<pc, result>>
  /\ UNCHANGED <<wr_pc, layer>>
  /\ UNCHANGED <<codec_vars, aux_vars>>

\* fgets returns NULL at the end of the file written
ReadBackEOF == wr_pc = "written" /\ file = <<>> /\ ReadEOF

WriterNext == WriteFile \/ ReadBackBegin \/ ReadBackChunk \/ ReadBackEOF

SpecRoundTrip == WriterInit /\ [][WriterNext]_vars

(***************************************************************************)
(* What the reader has built, as a layer.                                  *)
(***************************************************************************)
\* an entity as the layer holds it: without the line number and the
\* reversal count the model attaches to what the reader creates
Stored(r) == [f \in (DOMAIN r) \ {"lineno", "nrev"} |-> r[f]]

StoredTrack(trk) ==
  [Stored(trk) EXCEPT
     !.trackpoints = [k \in 1..Len(trk.trackpoints) |->
                        Stored(trk.trackpoints[k])]]

\* the layer the reader has filled: vik_trw_layer_filein_add_track puts a
\* route with the routes and a track with the tracks
ReadLayer ==
  LET all == [k \in 1..Len(tracks) |-> StoredTrack(tracks[k])]
      IsRoute(t) == t.is_route
      IsTrack(t) == ~t.is_route
  IN [ waypoints |-> [k \in 1..Len(waypoints) |-> Stored(waypoints[k])],
       tracks |-> SelectSeq(all, IsTrack),
       routes |-> SelectSeq(all, IsRoute) ]

(***************************************************************************)
(* Reading a given file: a_gpspoint_read_file on the bytes of a file that  *)
(* holds one record line (after a track start line when the record is a    *)
(* point), or on one of the files of RAW; then a_gpspoint_write_file on    *)
(* the layer that was read.                                                *)
(***************************************************************************)
MaxTokens == 2

\* the fields a record line may carry after its type field, by name
TOKENS == [
  name_W |-> Fld(KEY.name, <<"W">>),
  name_empty |-> Fld(KEY.name, <<>>),
  altitude_7 |-> Fld(KEY.altitude, <<"7">>),
  extended_yes |-> Fld(KEY.extended, <<"y", "e", "s">>),
  ext_fields |-> Fld(KEY.speed, <<"5">>) \o Sp \o Fld(KEY.course, <<"6">>)
                   \o Sp \o Fld(KEY.sat, <<"3">>) \o Sp \o Fld(KEY.fix, <<"2">>)
                   \o Sp \o Fld(KEY.hdop, <<"1">>) \o Sp \o Fld(KEY.vdop, <<"8">>)
                   \o Sp \o Fld(KEY.pdop, <<"4">>),
  no_equals |-> <<"5">>,
  open_quote |-> KEY.comment \o <<"=", DQ, "a">>,
  open_empty |-> KEY.comment \o <<"=", DQ>>,
  name_bare |-> KEY.name \o <<"=">>,
  type_bare |-> KEY.type \o <<"=">>,
  visible_bare |-> KEY.visible \o <<"=">>,
  altitude_bare |-> KEY.altitude \o <<"=">>,
  newsegment_bare |-> KEY.newsegment \o <<"=">> ]

TokenNames == DOMAIN TOKENS

RecordTypes == {"waypoint", "track", "route", "trackpoint"}

EiffelLine ==
  Fld(KEY.type, TYPENAME.waypoint)
    \o Sp \o Fld(KEY.latitude, <<"4","8",".","8","5","8","2","2","2">>)
    \o Sp \o Fld(KEY.longitude, <<"2",".","2","9","4","5","0","0">>)
    \o Sp \o Fld(KEY.name, <<"E","i","f","f","e","l"," ","T","o","w","e","r">>)
    \o Sp \o Fld(KEY.comment, <<"P","a","r","i","s",","," ",BSL,DQ,
                                 "F","r","a","n","c","e",BSL,DQ>>)

\* files that are not a single record line, by name
\* filler of n spaces for a line longer than the line buffer
Padding(n) == [i \in 1..n |-> " "]

\* VIKING_LINE_SIZE - 1 characters, the most fgets stores in one call:
\* a waypoint line that ends with the field tail
FullChunk(tail) ==
  LET head == Fld(KEY.type, TYPENAME.waypoint) \o Sp
  IN head \o Padding(VIKING_LINE_SIZE - 1 - Len(head) - Len(tail)) \o tail

RAW == [
  over_long |-> FullChunk(Fld(KEY.name, <<"W">>))
                  \o FullChunk(Fld(KEY.name, <<"V">>)) \o Nl,
  eiffel |-> EiffelLine \o Nl,
  empty_line |-> Nl,
  nul_first |-> <<NUL>> \o LINES.waypoint_W,
  nul_inside |-> Fld(KEY.type, TYPENAME.waypoint) \o <<NUL>> \o Sp
                   \o Fld(KEY.name, <<"W">>) \o Nl,
  no_final_newline |-> Fld(KEY.type, TYPENAME.waypoint) \o Sp
                         \o Fld(KEY.name, <<"W">>),
  comment_only |-> LINES.comment,
  end_marker |-> LINES.track_T \o LINES.trackpoint \o LINES.EndLayerData
                   \o LINES.waypoint_W ]

\* a field whose value is written without quotes
Unq(key, val) == key \o <<"=">> \o val

\* the keys of which the dispatcher keeps the first value of a line, and
\* those of which it keeps the last
FirstKeys == <<"name", "comment", "description", "source", "xtype", "color",
               "image">>
LastKeys == <<"url", "url_name", "symbol", "latitude", "longitude",
              "unixtime", "altitude", "number", "draw_name_mode",
              "number_dist_labels", "image_direction", "image_direction_ref",
              "speed", "course", "sat", "fix", "hdop", "vdop", "pdop",
              "magvar", "geoidheight", "ageofdgpsdata", "dgpsid">>

\* the fields key="v" for the keys ks, one after the other
RECURSIVE Once(_, _)
Once(ks, v) ==
  IF ks = <<>> THEN <<>>
  ELSE Fld(KEY[Head(ks)], v)
         \o (IF Len(ks) > 1 THEN Sp ELSE <<>>) \o Once(Tail(ks), v)

\* the fields key="v" key="w" for the keys ks, one after the other
RECURSIVE Twice(_, _, _)
Twice(ks, v, w) ==
  IF ks = <<>> THEN <<>>
  ELSE Fld(KEY[Head(ks)], v) \o Sp \o Fld(KEY[Head(ks)], w)
         \o (IF Len(ks) > 1 THEN Sp ELSE <<>>) \o Twice(Tail(ks), v, w)

\* further fields, each tried alone and next to a name: values without
\* quotes, empty values, type values in other spellings and outside the
\* vocabulary, keys outside the vocabulary, visible values, '#' at the
\* start of a token and inside one, a backslash at the start of a token
PROBES == [
  name_raw |-> Unq(KEY.name, <<"a", BSL, "b">>),
  comment_raw |-> Unq(KEY.comment, <<"a", BSL, "b">>),
  symbol_raw |-> Unq(KEY.symbol, <<"a", BSL, "b">>),
  comment_empty |-> Fld(KEY.comment, <<>>),
  altitude_empty |-> Fld(KEY.altitude, <<>>),
  visible_empty |-> Fld(KEY.visible, <<>>),
  type_empty |-> Fld(KEY.type, <<>>),
  type_WayPoint |-> Fld(<<"T","Y","P","E">>, <<"W","a","y","P","o","i","n","t">>),
  type_TRACKEND |-> Fld(KEY.type, <<"T","R","A","C","K","E","N","D">>),
  type_list |-> Fld(KEY.type, TYPENAME.waypointlist),
  type_waypoints |-> Fld(KEY.type, TYPENAME.waypoint \o <<"s">>),
  key_foo |-> Fld(<<"f","o","o">>, <<"x">>),
  key_nam |-> Fld(<<"n","a","m">>, <<"X">>),
  key_names |-> Fld(<<"n","a","m","e","s">>, <<"X">>),
  NAME_W |-> Fld(<<"N","A","M","E">>, <<"W">>),
  visible_n |-> Fld(KEY.visible, <<"n">>),
  visible_0 |-> Unq(KEY.visible, <<"0">>),
  visible_yes |-> Fld(KEY.visible, <<"y","e","s">>),
  visible_Y |-> Unq(KEY.visible, <<"Y">>),
  visible_true |-> Fld(KEY.visible, <<"t","r","u","e">>),
  visible_T |-> Unq(KEY.visible, <<"T">>),
  hash |-> <<"#">>,
  hash_c |-> <<"#", "c">>,
  color_hash |-> Unq(KEY.color, <<"#","1","2","3","4","5","6">>),
  name_hash |-> Fld(KEY.name, <<"a", "#", "b">>),
  bs_quote |-> <<BSL, DQ, "x">>,
  bs_bs_quote |-> <<BSL, BSL, DQ, "x", DQ>>,
  dup_first |-> Twice(FirstKeys, <<"A">>, <<"B">>),
  dup_last |-> Twice(LastKeys, <<"1">>, <<"2">>),
  dup_empty_first |-> Twice(FirstKeys, <<>>, <<"B">>),
  dup_empty_last |-> Twice(LastKeys, <<"1">>, <<>>),
  dup_type |-> Fld(KEY.type, TYPENAME.waypoint) \o Sp
                 \o Fld(KEY.type, TYPENAME.track),
  dup_visible |-> Fld(KEY.visible, <<"n">>) \o Sp
                    \o Fld(KEY.visible, <<"y">>) ]

\* the probes that hold one key twice
DupProbes == {"dup_first", "dup_last", "dup_empty_first", "dup_empty_last",
              "dup_type", "dup_visible"}

ProbeNames == (DOMAIN PROBES) \ DupProbes

TokenText(t) == IF t \in DOMAIN PROBES THEN PROBES[t] ELSE TOKENS[t]

RECURSIVE join_tokens(_)
join_tokens(toks) ==
  IF toks = <<>> THEN <<>>
  ELSE Sp \o TokenText(Head(toks)) \o join_tokens(Tail(toks))

record_line(type, toks) == Fld(KEY.type, TYPENAME[type]) \o join_tokens(toks)

\* the bytes of the file that given names; a point line comes after the
\* opening line of a track, and a line without a type field of its own
\* ("untyped") between two point lines of an open track
FileText(g) ==
  IF g.type = "raw" THEN RAW[g.toks[1]]
  ELSE IF g.type = "untyped"
    THEN LINES.track_T \o LINES.trackpoint \o join_tokens(g.toks) \o Nl
           \o LINES.trackpoint
  ELSE (IF g.type = "trackpoint" THEN LINES.track_T ELSE <<>>)
         \o record_line(g.type, g.toks) \o Nl

\* the well-formed fields
GoodTokens == {"name_W", "name_empty", "altitude_7", "extended_yes",
               "ext_fields"}

\* the lines: the seven extended fields come with well-formed fields only
TokenLines ==
  StringsUpTo(TokenNames \ {"ext_fields"}, MaxTokens)
    \cup StringsUpTo(GoodTokens, MaxTokens)

\* the lines that try one of the further fields
ProbeLines ==
  {<<t>> : t \in ProbeNames}
    \cup {<<"name_W", t>> : t \in ProbeNames}
    \cup {<<t, "name_W">> : t \in ProbeNames}

GivenFiles ==
  {[type |-> t, toks |-> ts] : t \in RecordTypes, ts \in TokenLines}
    \cup {[type |-> "raw", toks |-> <<r>>] : r \in DOMAIN RAW}
    \cup {[type |-> t, toks |-> ts] :
            t \in RecordTypes \cup {"untyped"}, ts \in ProbeLines}
    \cup {[type |-> t, toks |-> <<p>>] : t \in RecordTypes, p \in DupProbes}

GivenInit ==
  /\ ReaderInit
  /\ CodecIdle
  /\ wr_pc = "given"
  /\ layer = [waypoints |-> <<>>, tracks |-> <<>>, routes |-> <<>>]
  /\ given \in GivenFiles
  /\ file = FileText(given)
  /\ par = NoReads
  /\ owner = <<>>

\* the entry of a_gpspoint_read_file on the given file
ReadGivenBegin == wr_pc = "given" /\ ReadBegin

\* the fields after line_buffer[strlen(line_buffer)-1] = '\0': for an empty
\* buffer the index is below 0 and the byte written lies outside the buffer,
\* in no object or in a neighbouring static; line_latlon is the one static
\* of the reader whose value can outlive the line
chop_outcomes(chunk, ln) ==
  IF chop_index(chunk) < 0
    THEN {ln, [ln EXCEPT !.latlon.lon = Dbl(0)]}
    ELSE {ln}

\* one pass of the while loop: fgets returns the next chunk of the file
ReadGivenChunk ==
  /\ wr_pc = "given"
  /\ pc = "read"
  /\ file # <<>>
  /\ \E chunk \in {fgets(file)} :
       \E buf \in {chop(c_str(chunk))} :
         /\ file' = SubSeq(file, Len(chunk) + 1, Len(file))
         /\ hist' = Append(hist, chunk)
         /\ IF is_end_layer_data(buf)
              THEN \E S \in {read_return([ReaderState EXCEPT
                                            !.have_read_something = TRUE])} :
                     /\ tracks' = S.tracks
                     /\ waypoints' = S.waypoints
                     /\ current_track' = S.current_track
                     /\ have_read_something' = S.have_read_something
                     /\ result' = S.have_read_something
                     /\ pc' = "done"
                     /\ UNCHANGED line
              ELSE /\ \E ln0 \in chop_outcomes(chunk, line) :
                        \E tags \in {line_tags(buf, 0, FALSE, FALSE, <<>>)} :
                          \E ln \in {process_tags(buf, tags, 1, ln0)} :
                            \E S \in {assemble_record(ln, ReaderState,
                                                      Len(hist) + 1)} :
                              /\ tracks' = S.tracks
                              /\ waypoints' = S.waypoints
                              /\ current_track' = S.current_track
                              /\ have_read_something' = S.have_read_something
                              /\ line' = line_reset(ln)
                   /\ UNCHANGED <<pc, result>>
  /\ UNCHANGED <<wr_pc, layer, aux_vars>>
  /\ UNCHANGED codec_vars

\* a line loop that does not leave at the end of the input
ReadGivenEOF_spin ==
  wr_pc = "given" /\ file = <<>> /\ pc = "read" /\ UNCHANGED vars

\* fgets returns NULL at the end of the given file
ReadGivenEOF == wr_pc = "given" /\ file = <<>> /\ ReadEOF

\* a_gpspoint_write_file on the layer that was read
WriteBack ==
  /\ wr_pc = "given"
  /\ pc = "done"
  /\ wr_pc' = "rewritten"
  /\ layer' = ReadLayer
  /\ file' = a_gpspoint_write_file(ReadLayer)
  /\ UNCHANGED <<reader_vars, codec_vars, aux_vars>>

GivenNext == ReadGivenBegin \/ ReadGivenChunk \/ ReadGivenEOF \/ WriteBack

SpecGiven == GivenInit /\ [][GivenNext]_vars

\* a_gpspoint_read_file as a function of the bytes f and of the values ln
\* of the static line_* variables at the call: the reader's state at the
\* return
RECURSIVE read_lines(_, _, _, _)
read_lines(f, ln, S, n) ==
  IF f = <<>> THEN read_return(S)
  ELSE LET chunk == fgets(f)
           buf == chop(c_str(chunk))
           ln1 == tokenize_line(buf, ln)
       IN IF is_end_layer_data(buf)
            THEN read_return([S EXCEPT !.have_read_something = TRUE])
            ELSE read_lines(SubSeq(f, Len(chunk) + 1, Len(f)), line_reset(ln1),
                            assemble_record(ln1, S, n), n + 1)

a_gpspoint_read_file(f, ln) ==
  read_lines(f, read_file_entry(ln),
             [tracks |-> <<>>, waypoints |-> <<>>, current_track |-> 0,
              have_read_something |-> FALSE], 1)

(***************************************************************************)
(* Vocabulary of the properties: the chunks of LINES by what they are.     *)
(***************************************************************************)
EndLines == {"trackend", "routeend"}
PointLines == {"trackpoint", "routepoint"}
NamedStartLines == {"track_T", "route_R"}
StartLines == NamedStartLines \cup {"track_noname"}
NamedWaypointLines == {"waypoint_W"}
MarkerLines == {"EndLayerData"}

\* a chunk was consumed in this step, and it is the last of hist'
Consumed(kinds) ==
  /\ Len(hist') = Len(hist) + 1
  /\ hist'[Len(hist')] \in kinds

\* the linenos of the points of a track, in list order
Linenos(trk) == [k \in 1..Len(trk.trackpoints) |-> trk.trackpoints[k].lineno]

Ascending(seq) == \A a, b \in 1..Len(seq) : a < b => seq[a] < seq[b]

\* the numbers of the chunks of h strictly between i and j that are of
\* the given kinds, in ascending order
RECURSIVE Between(_, _, _, _)
Between(h, i, j, kinds) ==
  IF i + 1 >= j THEN <<>>
  ELSE IF h[i + 1] \in kinds
         THEN <<i + 1>> \o Between(h, i + 1, j, kinds)
         ELSE Between(h, i + 1, j, kinds)

MarkerSeen == \E i \in 1..Len(hist) : hist[i] \in MarkerLines

(***************************************************************************)
(* C1.  After a trackend/routeend line no entity is open: a point line     *)
(* that follows an end line, with no track/route start line in between,    *)
(* is not appended to any entity (whether or not the ended entity had      *)
(* points).                                                                *)
(***************************************************************************)
C1_NoAppendAfterEnd ==
  [][ ( /\ Consumed(PointLines)
        /\ \E i \in 1..Len(hist) :
             /\ hist[i] \in EndLines
             /\ \A j \in (i + 1)..Len(hist) : hist[j] \notin StartLines )
      => tracks' = tracks ]_vars

(***************************************************************************)
(* C2.  At every line boundary of the read every transient per-line field  *)
(* is at its absence/default value.                                        *)
(***************************************************************************)
C2_LineFieldsReset == pc = "read" => line = line_static_init

(***************************************************************************)
(* C3.  Round trip: when no field of any entity of the layer is at its     *)
(* absence value, reading back what the writer wrote gives the same        *)
(* waypoints, tracks and routes, each with the same points, field for      *)
(* field.                                                                  *)
(***************************************************************************)
StrPresent(s) == s # NullStr /\ s # <<>>

WaypointPresent(wp) ==
  /\ \A s \in {wp.name, wp.comment, wp.description, wp.source, wp.url,
               wp.url_name, wp.type, wp.image, wp.symbol, wp.extensions} :
       StrPresent(s)
  /\ \A d \in {wp.altitude, wp.timestamp, wp.speed, wp.course, wp.magvar,
               wp.geoidheight, wp.hdop, wp.vdop, wp.pdop, wp.ageofdgpsdata,
               wp.image_direction} : ~isnan(d)
  /\ \A n \in {wp.nsats, wp.fix_mode, wp.dgpsid} : n # 0

PointPresent(tp) ==
  /\ StrPresent(tp.name)
  /\ \A d \in {tp.timestamp, tp.altitude, tp.speed, tp.course, tp.hdop,
               tp.vdop, tp.pdop} : ~isnan(d)
  /\ \A n \in {tp.nsats, tp.fix_mode} : n # 0

TrackPresent(trk) ==
  /\ \A s \in {trk.name, trk.comment, trk.description, trk.source, trk.type} :
       StrPresent(s)
  /\ trk.has_color
  /\ \A n \in {trk.number, trk.draw_name_mode, trk.max_number_dist_labels} :
       n # 0
  /\ \A k \in 1..Len(trk.trackpoints) : PointPresent(trk.trackpoints[k])

NoFieldAbsent(L) ==
  /\ \A k \in 1..Len(L.waypoints) : WaypointPresent(L.waypoints[k])
  /\ \A k \in 1..Len(L.tracks) : TrackPresent(L.tracks[k])
  /\ \A k \in 1..Len(L.routes) : TrackPresent(L.routes[k])

C3_RoundTrip ==
  (wr_pc = "written" /\ pc = "done" /\ NoFieldAbsent(layer))
    => ReadLayer = layer

(***************************************************************************)
(* C4.  For every non-empty string s, unescaping escape(s) over its whole  *)
(* length gives s with every line feed and carriage return replaced by a   *)
(* space.                                                                  *)
(***************************************************************************)
NewlinesAsSpaces(s) ==
  [i \in 1..Len(s) |-> IF s[i] = "\n" \/ s[i] = "\r" THEN " " ELSE s[i]]

C4_EscapeRoundTrip ==
  (esc_pc = "done" /\ esc_in # <<>>) => esc_out = NewlinesAsSpaces(esc_in)

C4_Witness ==
  /\ esc_pc = "done"
  /\ \E i, j, k \in 1..Len(esc_in) :
       esc_in[i] = DQ /\ esc_in[j] = BSL /\ esc_in[k] = "\n"
  /\ esc_out = NewlinesAsSpaces(esc_in)

(***************************************************************************)
(* C5.  The read returns true exactly when a waypoint, track or route was  *)
(* created (a point needs a track) or the end marker was reached; an input *)
(* of comments, unknown types, nameless records, orphan points and end     *)
(* lines returns false.                                                    *)
(***************************************************************************)
NoRecordLines ==
  {"comment", "waypointlist", "track_noname", "waypoint_noname",
   "trackpoint", "routepoint", "trackend", "routeend"}

C5_ReturnValue ==
  pc = "done" =>
    /\ result <=> (waypoints # <<>> \/ tracks # <<>> \/ MarkerSeen)
    /\ (\A i \in 1..Len(hist) : hist[i] \in NoRecordLines) => ~result

C5_Witness ==
  /\ pc = "done"
  /\ ~result
  /\ \E i, j, k \in 1..Len(hist) :
       /\ hist[i] \in PointLines
       /\ hist[j] \in EndLines
       /\ hist[k] = "waypoint_noname"

(***************************************************************************)
(* C6.  The end marker stops the read: it is the last chunk consumed, no   *)
(* entity is created by it or after it, every track holds its points in    *)
(* file order, and the read has returned true.                             *)
(***************************************************************************)
C6_MarkerStops ==
  MarkerSeen =>
    /\ hist[Len(hist)] \in MarkerLines
    /\ \A i \in 1..(Len(hist) - 1) : hist[i] \notin MarkerLines
    /\ pc = "done"
    /\ result
    /\ \A k \in 1..Len(tracks) :
         /\ Ascending(Linenos(tracks[k]))
         /\ tracks[k].lineno < Len(hist)
         /\ \A n \in 1..Len(tracks[k].trackpoints) :
              tracks[k].trackpoints[n].lineno < Len(hist)
    /\ \A k \in 1..Len(waypoints) : waypoints[k].lineno < Len(hist)

C6_Witness ==
  /\ MarkerSeen
  /\ \A i \in 1..Len(hist) : hist[i] \notin EndLines
  /\ \E k \in 1..Len(tracks) :
       Len(tracks[k].trackpoints) >= 2 /\ Ascending(Linenos(tracks[k]))

(***************************************************************************)
(* C7.  A point line processed before any track/route has been started     *)
(* creates no point, changes no collection, does not set the success flag, *)
(* and the reader stays in its loop.                                       *)
(***************************************************************************)
C7_OrphanPoint ==
  [][ ( /\ Consumed(PointLines)
        /\ \A i \in 1..Len(hist) : hist[i] \notin NamedStartLines )
      => /\ tracks' = tracks
         /\ waypoints' = waypoints
         /\ current_track' = current_track
         /\ have_read_something' = have_read_something
         /\ pc' = "read" ]_vars

C7_Witness ==
  /\ Len(hist) >= 3
  /\ hist[1] \in PointLines
  /\ hist[2] \in NamedStartLines
  /\ hist[3] \in PointLines
  /\ Len(tracks) = 1
  /\ Len(tracks[1].trackpoints) = 1
  /\ tracks[1].trackpoints[1].lineno = 3

(***************************************************************************)
(* C8.  A named track/route start processed while a track/route T is still *)
(* open, no end line having been seen since T started, makes a second      *)
(* entity; T then holds exactly the points between its start and the new   *)
(* start, in file order, and in every step only the entity that is open    *)
(* after the step can have gained a point.                                 *)
(***************************************************************************)
PointSet(trk) == {trk.trackpoints[k] : k \in 1..Len(trk.trackpoints)}

C8_DefensiveClose ==
  /\ [][ ( /\ Consumed(NamedStartLines)
           /\ current_track # 0
           /\ \A i \in (tracks[current_track].lineno + 1)..Len(hist) :
                hist[i] \notin EndLines )
         => /\ Len(tracks') = Len(tracks) + 1
            /\ current_track' = Len(tracks')
            /\ tracks'[current_track'].trackpoints = <<>>
            /\ Linenos(tracks'[current_track]) =
                 Between(hist, tracks[current_track].lineno, Len(hist) + 1,
                         PointLines) ]_vars
  /\ [][ \A k \in 1..Len(tracks) :
           k # current_track' =>
             /\ k <= Len(tracks')
             /\ PointSet(tracks'[k]) = PointSet(tracks[k]) ]_vars

C8_Witness ==
  /\ Len(tracks) = 2
  /\ \A i \in 1..Len(hist) : hist[i] \notin EndLines
  /\ Linenos(tracks[1]) = <<2, 3>>
  /\ current_track = 2

(***************************************************************************)
(* C9.  A named waypoint line closes any open track/route: a point line    *)
(* that follows it, with no track/route start line in between, is not      *)
(* appended to any entity.                                                 *)
(***************************************************************************)
C9_NoAppendAfterWaypoint ==
  [][ ( /\ Consumed(PointLines)
        /\ \E i \in 1..Len(hist) :
             /\ hist[i] \in NamedWaypointLines
             /\ \A j \in (i + 1)..Len(hist) : hist[j] \notin StartLines )
      => tracks' = tracks ]_vars

(***************************************************************************)
(* C10.  When the read has returned, every track and route holds its       *)
(* points in the order of their lines, and a point list that is not empty  *)
(* has been reversed exactly once.                                         *)
(***************************************************************************)
C10_FileOrder ==
  pc = "done" =>
    \A k \in 1..Len(tracks) :
      /\ Ascending(Linenos(tracks[k]))
      /\ tracks[k].nrev = IF tracks[k].trackpoints = <<>> THEN 0 ELSE 1

C10_Witness ==
  /\ pc = "done"
  /\ ~MarkerSeen
  /\ \E i \in 1..Len(hist) : hist[i] = "track_noname"
  /\ \A i \in 1..Len(hist) : hist[i] \notin EndLines
  /\ \E k \in 1..Len(tracks) :
       Len(tracks[k].trackpoints) >= 2 /\ tracks[k].nrev = 1

(***************************************************************************)
(* C11.  A waypoint, track or route line whose name field is missing or    *)
(* empty (name="" or name=) creates no entity, inserts nothing into the    *)
(* collections and does not set the success flag; the read runs on to its  *)
(* return and reports false.                                               *)
(***************************************************************************)
Range(seq) == {seq[i] : i \in 1..Len(seq)}

EntityTypes == {"waypoint", "track", "route"}

\* the tokens that give a line a name
NamingTokens == {"name_W", "name_raw", "NAME_W", "name_hash", "dup_first",
                 "dup_empty_first"}

C11_NamelessDropped ==
  ( /\ wr_pc = "given"
    /\ given.type \in EntityTypes
    /\ Range(given.toks) \cap NamingTokens = {} )
  => /\ tracks = <<>>
     /\ waypoints = <<>>
     /\ current_track = 0
     /\ ~have_read_something
     /\ ~result
     /\ pc \in {"idle", "read", "done"}

C11_Witness ==
  /\ wr_pc = "given"
  /\ pc = "done"
  /\ given.type \in {"track", "route"}
  /\ Range(given.toks) = {"name_empty", "name_bare"}
  /\ waypoints = <<>>
  /\ tracks = <<>>
  /\ ~result

(***************************************************************************)
(* C12.  Extended gating: the point built from a point line has the speed, *)
(* course, satellite count, fix mode, HDOP, VDOP and PDOP of that line if  *)
(* and only if the line carries an extended field, before or after them;   *)
(* without it the seven fields are at their absence values although their  *)
(* tokens are on the line.                                                 *)
(***************************************************************************)
ExtOf(tp) ==
  [speed |-> tp.speed, course |-> tp.course, nsats |-> tp.nsats,
   fix_mode |-> tp.fix_mode, hdop |-> tp.hdop, vdop |-> tp.vdop,
   pdop |-> tp.pdop]

\* the values of the fields of the token ext_fields
ExtValues ==
  [speed |-> Dec(5, 0), course |-> Dec(6, 0), nsats |-> 3, fix_mode |-> 2,
   hdop |-> Dec(1, 0), vdop |-> Dec(8, 0), pdop |-> Dec(4, 0)]

ExtAbsent ==
  [speed |-> NAN, course |-> NAN, nsats |-> 0, fix_mode |-> 0,
   hdop |-> NAN, vdop |-> NAN, pdop |-> NAN]

RECURSIVE file_lines(_)
file_lines(f) ==
  IF f = <<>> THEN <<>>
  ELSE LET c == fgets(f)
       IN <<c>> \o file_lines(SubSeq(f, Len(c) + 1, Len(f)))

Contains(ln, pat) ==
  \E i \in 1..(Len(ln) - Len(pat) + 1) : SubSeq(ln, i, i + Len(pat) - 1) = pat

HasKey(ln, key) == Contains(ln, Sp \o key \o <<"=">>)

\* the lines the first n of the tracks trks take in the file
RECURSIVE lines_of_tracks(_, _)
lines_of_tracks(trks, n) ==
  IF n = 0 THEN 0
  ELSE lines_of_tracks(trks, n - 1) + Len(trks[n].trackpoints) + 2

\* the number of the line of the k-th waypoint of L, of the opening line of
\* the t-th of its tracks and routes, and of the k-th point of that one
WaypointLineNo(L, k) == 1 + k
TrackLineNo(L, t) ==
  Len(L.waypoints) + 2 + lines_of_tracks(L.tracks \o L.routes, t - 1) + 1
PointLineNo(L, t, k) == TrackLineNo(L, t) + k

WaypointKeysOk(ln, wp) ==
  /\ \A f \in {"altitude", "speed", "course", "magvar", "geoidheight", "hdop",
               "vdop", "pdop", "ageofdgpsdata", "image_direction"} :
       HasKey(ln, KEY[f]) <=> ~isnan(wp[f])
  /\ HasKey(ln, KEY.unixtime) <=> ~isnan(wp.timestamp)
  /\ \A f \in {"comment", "description", "source", "url", "url_name",
               "image", "symbol"} :
       HasKey(ln, KEY[f]) <=> StrPresent(wp[f])
  /\ HasKey(ln, KEY.xtype) <=> StrPresent(wp.type)
  /\ HasKey(ln, KEY.fix) <=> wp.fix_mode # 0
  /\ HasKey(ln, KEY.sat) <=> wp.nsats # 0
  /\ HasKey(ln, KEY.dgpsid) <=> wp.dgpsid # 0
  /\ HasKey(ln, KEY.visible) <=> ~wp.visible

TrackKeysOk(ln, trk) ==
  /\ \A f \in {"comment", "description", "source"} :
       HasKey(ln, KEY[f]) <=> StrPresent(trk[f])
  /\ HasKey(ln, KEY.xtype) <=> StrPresent(trk.type)
  /\ HasKey(ln, KEY.number) <=> trk.number # 0
  /\ HasKey(ln, KEY.color) <=> trk.has_color
  /\ HasKey(ln, KEY.draw_name_mode) <=> trk.draw_name_mode # 0
  /\ HasKey(ln, KEY.number_dist_labels) <=> trk.max_number_dist_labels # 0
  /\ HasKey(ln, KEY.visible) <=> ~trk.visible

PointKeysOk(ln, tp) ==
  /\ HasKey(ln, KEY.name) <=> StrPresent(tp.name)
  /\ HasKey(ln, KEY.altitude) <=> ~isnan(tp.altitude)
  /\ HasKey(ln, KEY.unixtime) <=> ~isnan(tp.timestamp)
  /\ HasKey(ln, KEY.newsegment) <=> tp.newsegment
  /\ \A f \in {"speed", "course", "hdop", "vdop", "pdop"} :
       HasKey(ln, KEY[f]) <=> ~isnan(tp[f])
  /\ HasKey(ln, KEY.sat) <=> tp.nsats # 0
  /\ HasKey(ln, KEY.fix) <=> tp.fix_mode # 0

C13_SentinelOmission ==
  (wr_pc = "written" /\ pc = "idle") =>
    LET lns == file_lines(file)
        all == layer.tracks \o layer.routes
    IN /\ \A k \in 1..Len(layer.waypoints) :
            WaypointKeysOk(lns[WaypointLineNo(layer, k)], layer.waypoints[k])
       /\ \A t \in 1..Len(all) :
            /\ TrackKeysOk(lns[TrackLineNo(layer, t)], all[t])
            /\ \A k \in 1..Len(all[t].trackpoints) :
                 PointKeysOk(lns[PointLineNo(layer, t, k)],
                             all[t].trackpoints[k])

(***************************************************************************)
(* C14.  Order preservation: the writer emits the waypoints, the tracks    *)
(* and the routes in the order the layer lists them and the reader inserts *)
(* them in the order of their lines, so the layer read back lists the same *)
(* names in the same order in each of its three collections.               *)
(***************************************************************************)
NamesOf(seq) == [k \in 1..Len(seq) |-> NewlinesAsSpaces(seq[k].name)]

InsertedInLineOrder(seq) ==
  \A a, b \in 1..Len(seq) : a < b => seq[a].lineno < seq[b].lineno

C14_OrderPreserved ==
  (wr_pc = "written" /\ pc = "done") =>
    /\ NamesOf(ReadLayer.waypoints) = NamesOf(layer.waypoints)
    /\ NamesOf(ReadLayer.tracks) = NamesOf(layer.tracks)
    /\ NamesOf(ReadLayer.routes) = NamesOf(layer.routes)
    /\ InsertedInLineOrder(waypoints)
    /\ InsertedInLineOrder(tracks)

C14_Witness ==
  /\ wr_pc = "written"
  /\ pc = "done"
  /\ \E p \in Orders : p[1] = 3 /\ p[2] = 1 /\ layer = OrderedLayer(p)
  /\ NamesOf(ReadLayer.waypoints) = <<(<<"c">>), (<<"a">>), (<<"b">>)>>
  /\ NamesOf(ReadLayer.tracks) = <<(<<"c">>), (<<"a">>), (<<"b">>)>>
  /\ NamesOf(ReadLayer.routes) = <<(<<"c">>), (<<"a">>)>>

(***************************************************************************)
(* C15.  A malformed token (no '=', a quoted value whose closing quote is  *)
(* missing, an empty truncated value) drops that single field only: the    *)
(* record built from the line is the one built from the same line without  *)
(* the malformed tokens, every well-formed field before or after them      *)
(* taking effect.                                                          *)
(***************************************************************************)
\* key= with nothing after the '='
BareTokens == {"name_bare", "type_bare", "visible_bare", "altitude_bare",
               "newsegment_bare"}

MalformedTokens == {"no_equals", "open_quote", "open_empty"} \cup BareTokens

\* the given line without the tokens of drop
WithoutTokens(g, drop) ==
  LET Keep(t) == t \notin drop
  IN [g EXCEPT !.toks = SelectSeq(@, Keep)]

\* what the read has produced, and the same for a state S of the reader at
\* its return
Outcome == [tracks |-> tracks, waypoints |-> waypoints, result |-> result]

OutcomeOf(S) ==
  [tracks |-> S.tracks, waypoints |-> S.waypoints,
   result |-> S.have_read_something]

C15_MalformedDropsOnlyItself ==
  (pc = "done" /\ given.type \in RecordTypes) =>
    Outcome = OutcomeOf(a_gpspoint_read_file(
                          FileText(WithoutTokens(given, MalformedTokens)),
                          line_static_init))

(***************************************************************************)
(* C16.  Every buffer access of the reader stays inside the line buffer:   *)
(* for every chunk fgets has delivered, the index strlen(line_buffer) - 1  *)
(* at which the line terminator is chopped is at least 0.                  *)
(***************************************************************************)
C16_ChopInsideBuffer ==
  \A i \in 1..Len(hist) : chop_index(hist[i]) >= 0

(***************************************************************************)
(* C20.  A token key= with nothing after the '=' is discarded for every    *)
(* known key: it changes no per-line field (newsegment, extended, visible, *)
(* type, a number taken from the text after the token), so the record      *)
(* built from the line is the one built from the line without the token.   *)
(***************************************************************************)
C20_BareKeyDiscarded ==
  ( /\ pc = "done"
    /\ given.type \in RecordTypes
    /\ Range(given.toks) \subseteq (GoodTokens \cup BareTokens \cup {"no_equals"}) )
  => Outcome = OutcomeOf(a_gpspoint_read_file(
                           FileText(WithoutTokens(given, BareTokens)),
                           line_static_init))

(***************************************************************************)
(* C17.  For every finite input the read terminates.  Every step of the    *)
(* line loop strictly decreases a natural number (the bytes left to read   *)
(* and the position of the reader), so no run has infinitely many steps;   *)
(* the per-line tokenizer advances at every token and stays inside the     *)
(* line; the reader is never stuck before its return, where what it        *)
(* reports is the boolean result.                                          *)
(***************************************************************************)
\* what is left to do: 0 once the reader has returned and the layer is
\* written back
Remaining ==
  IF wr_pc = "rewritten" THEN 0
  ELSE 1 + Len(file) + (CASE pc = "idle" -> 2 [] pc = "read" -> 1
                          [] OTHER -> 0)

\* the tokens of one line start after the previous token's end and end
\* inside the line
TokensAdvance(buf) ==
  LET t == line_tags(buf, 0, FALSE, FALSE, <<>>)
  IN \A k \in 1..Len(t) :
       /\ t[k].len >= 1
       /\ t[k].tag + t[k].len <= strlen(buf)
       /\ k > 1 => t[k].tag > t[k - 1].tag + t[k - 1].len

\* some statement of the reader can execute
ReaderCanStep ==
  \/ ENABLED <<ReadGivenBegin>>_vars
  \/ wr_pc = "given" /\ pc = "read" /\ file # <<>>
  \/ ENABLED <<ReadGivenEOF>>_vars

C17_Terminates ==
  /\ [](pc # "done" => ReaderCanStep)
  /\ [](pc = "done" => result \in BOOLEAN)
  /\ [](\A i \in 1..Len(hist) : TokensAdvance(chop(c_str(hist[i]))))
  /\ [][Remaining' < Remaining]_vars

C17_Witness ==
  /\ pc = "done"
  /\ wr_pc = "given"
  /\ given.type = "raw"
  /\ file = <<>>
  /\ Len(hist) >= 1
  /\ ~result

(***************************************************************************)
(* C18.  Reading the single line                                           *)
(*   type="waypoint" latitude="48.858222" longitude="2.294500"             *)
(*   name="Eiffel Tower" comment="Paris, \"France\""                       *)
(* creates exactly one waypoint, named Eiffel Tower, with the comment      *)
(* Paris, "France" and the coordinates 48.858222, 2.294500; writing it     *)
(* back gives the same line, byte for byte, between the two lines that     *)
(* bracket the waypoints.                                                  *)
(***************************************************************************)
EiffelGiven == given = [type |-> "raw", toks |-> <<"eiffel">>]

EiffelRead ==
  /\ result
  /\ tracks = <<>>
  /\ Len(waypoints) = 1
  /\ waypoints[1].name = <<"E","i","f","f","e","l"," ","T","o","w","e","r">>
  /\ waypoints[1].comment = <<"P","a","r","i","s",","," ",DQ,
                              "F","r","a","n","c","e",DQ>>
  /\ waypoints[1].coord.lat = Dbl(48858222 * Pow10(FracDigits - 6))
  /\ waypoints[1].coord.lon = Dbl(2294500 * Pow10(FracDigits - 6))

C18_EiffelTower ==
  /\ (EiffelGiven /\ pc = "done") => EiffelRead
  /\ (EiffelGiven /\ wr_pc = "rewritten") =>
       file = Fld(KEY.type, TYPENAME.waypointlist) \o Nl \o EiffelLine \o Nl
               \o Fld(KEY.type, TYPENAME.waypointlistend) \o Nl

C18_Witness ==
  /\ EiffelGiven
  /\ wr_pc = "rewritten"
  /\ Len(layer.waypoints) = 1
  /\ Contains(file, <<"E","i","f","f","e","l"," ","T","o","w","e","r">>)

(***************************************************************************)
(* Two reads at the same time.  The steps are those of the single reader,  *)
(* one pass of the line loop at a time, taken by either invocation in any  *)
(* order; the statics they assign are the shared ones.                     *)
(***************************************************************************)
\* the files of the two invocations, by the names of their lines
ParInputs ==
  { <<"track_T", "trackpoint", "trackend">>,
    <<"track_T", "trackpoint">>,
    <<"route_R", "routepoint">>,
    <<"waypoint_W">>,
    <<"waypoint_W", "EndLayerData">> }

ParInit ==
  /\ ReaderInit
  /\ CodecIdle
  /\ WriterIdle
  /\ given = NoFile
  /\ owner = <<>>
  /\ \E f1 \in ParInputs, f2 \in ParInputs :
       par = [r \in Readers |->
                [pc |-> "idle", input |-> IF r = 1 THEN f1 ELSE f2, pos |-> 0,
                 have_read_something |-> FALSE, result |-> FALSE,
                 waypoints |-> <<>>]]

\* the reader's state as invocation r has it: its own layer and flag, the
\* shared current_track
ParState(r) ==
  [tracks |-> tracks, waypoints |-> par[r].waypoints,
   current_track |-> current_track,
   have_read_something |-> par[r].have_read_something]

\* the tracks S has more than the state before are added to the layer of r
owner_after(r, S) ==
  owner \o [k \in 1..(Len(S.tracks) - Len(tracks)) |-> r]

\* the entry of invocation r, up to its first fgets
ParBegin(r) ==
  /\ par[r].pc = "idle"
  /\ par' = [par EXCEPT ![r].pc = "read", ![r].have_read_something = FALSE]
  /\ line' = read_file_entry(line)
  /\ current_track' = 0
  /\ UNCHANGED <<pc, tracks, waypoints, have_read_something, result, hist>>
  /\ UNCHANGED <<codec_vars, writer_vars, given, owner>>

\* one pass of the while loop of invocation r
ParLine(r) ==
  /\ par[r].pc = "read"
  /\ par[r].pos < Len(par[r].input)
  /\ \E chunk \in {par[r].input[par[r].pos + 1]} :
       \E buf \in {chop(LINES[chunk])} :
         IF is_end_layer_data(buf)
           THEN \E S \in {read_return([ParState(r) EXCEPT
                                          !.have_read_something = TRUE])} :
                  /\ tracks' = S.tracks
                  /\ current_track' = S.current_track
                  /\ par' = [par EXCEPT
                               ![r].pc = "done",
                               ![r].pos = @ + 1,
                               ![r].waypoints = S.waypoints,
                               ![r].have_read_something = S.have_read_something,
                               ![r].result = S.have_read_something]
                  /\ UNCHANGED <<line, owner>>
           ELSE \E ln \in {process_tags(buf, TAGS[chunk], 1, line)} :
                  \E S \in {assemble_record(ln, ParState(r), par[r].pos + 1)} :
                    /\ tracks' = S.tracks
                    /\ current_track' = S.current_track
                    /\ owner' = owner_after(r, S)
                    /\ par' = [par EXCEPT
                                 ![r].pos = @ + 1,
                                 ![r].waypoints = S.waypoints,
                                 ![r].have_read_something = S.have_read_something]
                    /\ line' = line_reset(ln)
  /\ UNCHANGED <<pc, waypoints, have_read_something, result, hist>>
  /\ UNCHANGED <<codec_vars, writer_vars, given>>

\* fgets of invocation r returns NULL: leave the loop and return
ParEOF(r) ==
  /\ par[r].pc = "read"
  /\ par[r].pos = Len(par[r].input)
  /\ \E S \in {read_return(ParState(r))} :
       /\ tracks' = S.tracks
       /\ current_track' = S.current_track
       /\ par' = [par EXCEPT ![r].pc = "done",
                             ![r].waypoints = S.waypoints,
                             ![r].have_read_something = S.have_read_something,
                             ![r].result = S.have_read_something]
  /\ UNCHANGED <<pc, line, waypoints, have_read_something, result, hist>>
  /\ UNCHANGED <<codec_vars, writer_vars, given, owner>>

ParNext == \E r \in Readers : ParBegin(r) \/ ParLine(r) \/ ParEOF(r)

SpecTwoReads == ParInit /\ [][ParNext]_vars

(***************************************************************************)
(* C19.  The per-line fields and the open-track pointer are local to one   *)
(* parse: when two reads are active together, their line steps             *)
(* interleaved, each produces the entities and the result it produces      *)
(* when run alone on its file.                                             *)
(***************************************************************************)
\* the bytes of a file given by the names of its lines
RECURSIVE InputText(_)
InputText(input) ==
  IF input = <<>> THEN <<>> ELSE LINES[Head(input)] \o InputText(Tail(input))

\* what invocation r has put into its layer, and its result
ParOutcome(r) ==
  LET Mine(k) == owner[k] = r
      idx == SelectSeq([k \in 1..Len(tracks) |-> k], Mine)
  IN [tracks |-> [k \in 1..Len(idx) |-> StoredTrack(tracks[idx[k]])],
      waypoints |-> [k \in 1..Len(par[r].waypoints) |->
                       Stored(par[r].waypoints[k])],
      result |-> par[r].result]

\* the same for one read of the file, alone, from the initial statics
AloneOutcome(input) ==
  LET S == a_gpspoint_read_file(InputText(input), line_static_init)
  IN [tracks |-> [k \in 1..Len(S.tracks) |-> StoredTrack(S.tracks[k])],
      waypoints |-> [k \in 1..Len(S.waypoints) |-> Stored(S.waypoints[k])],
      result |-> S.have_read_something]

C19_ParsesIsolated ==
  (\A r \in Readers : par[r].pc = "done") =>
    \A r \in Readers : ParOutcome(r) = AloneOutcome(par[r].input)

(***************************************************************************)
(* C21.  A value that does not begin with a double quote is stored as the  *)
(* rest of the token exactly as written: for a string key (name, comment)  *)
(* the backslash of the unquoted value a\b is kept in the stored value.    *)
(***************************************************************************)
\* the value of the fields name_raw and comment_raw, as written
RawValue == <<"a", BSL, "b">>

C21_UnquotedKept ==
  ( /\ wr_pc = "given"
    /\ pc = "done"
    /\ given.type = "waypoint"
    /\ Len(waypoints) = 1 )
  => /\ given.toks[1] = "name_raw" => waypoints[1].name = RawValue
     /\ "comment_raw" \in Range(given.toks) => waypoints[1].comment = RawValue

(***************************************************************************)
(* C22.  A field written as key="" gives an explicit empty value that is   *)
(* told apart from the key not being on the line: the per-line fields      *)
(* after a line that carries key="" differ from the per-line fields after  *)
(* the same line without that token.                                       *)
(***************************************************************************)
\* the fields written as key=""
EmptyTokens == {"name_empty", "comment_empty", "altitude_empty",
                "visible_empty", "type_empty"}

\* the line_* variables after the tokens of the record line of g are
\* dispatched, in a read that starts from the initial statics
LineFields(g) ==
  tokenize_line(chop(record_line(g.type, g.toks) \o Nl),
                read_file_entry(line_static_init))

C22_EmptyIsExplicit ==
  ( /\ wr_pc = "given"
    /\ pc = "done"
    /\ given.type \in RecordTypes
    /\ Range(given.toks) \cap EmptyTokens # {}
    /\ chop(hist[Len(hist)]) = chop(record_line(given.type, given.toks) \o Nl) )
  => LineFields(given) # LineFields(WithoutTokens(given, EmptyTokens))

(***************************************************************************)
(* C23.  The record a line makes depends only on the type parsed on that   *)
(* line; type names are a closed vocabulary matched without regard to      *)
(* case.  A line with no type, an empty type or any other type value       *)
(* creates nothing, closes nothing, and leaves the open track and the      *)
(* collections as they were; TYPE="WayPoint" acts as type="waypoint" and   *)
(* type="TRACKEND" as type="trackend".                                     *)
(***************************************************************************)
\* the fields whose value is a type name written in another case
CasedTypes == {"type_WayPoint", "type_TRACKEND"}

\* the line of the vocabulary that a line of fields without a leading type
\* stands for, <<>> when its type is none
EquivalentLine(toks) ==
  IF "type_WayPoint" \in Range(toks)
    THEN (IF "name_W" \in Range(toks) THEN <<"waypoint_W">>
                                      ELSE <<"waypoint_noname">>)
  ELSE IF "type_TRACKEND" \in Range(toks) THEN <<"trackend">>
  ELSE <<>>

\* what the read has put into the layer, without the line numbers
StoredOutcome ==
  [tracks |-> [k \in 1..Len(tracks) |-> StoredTrack(tracks[k])],
   waypoints |-> [k \in 1..Len(waypoints) |-> Stored(waypoints[k])],
   result |-> result]

\* the step that reads the line of fields of an untyped file
ReadsUntypedLine ==
  /\ wr_pc = "given" /\ given # NoFile /\ given.type = "untyped"
  /\ pc = "read" /\ Len(hist) = 2 /\ Len(hist') = 3

C23_TypeDecides ==
  /\ [](( /\ wr_pc = "given" /\ pc = "done" /\ given # NoFile
          /\ given.type = "untyped" )
        => StoredOutcome = AloneOutcome(<<"track_T", "trackpoint">>
                             \o EquivalentLine(given.toks)
                             \o <<"trackpoint">>))
  /\ [][ (ReadsUntypedLine /\ EquivalentLine(given.toks) = <<>>)
           => UNCHANGED <<tracks, waypoints, current_track>> ]_vars

\* a line with type="waypointlist" and a name has been read between two
\* points of a track: both points are in the track, no waypoint was made
C23_Witness ==
  /\ wr_pc = "given" /\ pc = "done" /\ given # NoFile
  /\ given.type = "untyped"
  /\ given.toks = <<"type_list", "name_W">>
  /\ Len(tracks) = 1 /\ Len(tracks[1].trackpoints) = 2
  /\ waypoints = <<>>

(***************************************************************************)
(* C24.  A well-formed field whose key is not a known key, compared        *)
(* without regard to case and by exact length (foo, nam, names), is        *)
(* ignored: the per-line fields after the line, and everything the read    *)
(* builds, are what they are for the same line without that field.         *)
(***************************************************************************)
UnknownTokens == {"key_foo", "key_nam", "key_names"}

C24_UnknownKeyIgnored ==
  ( /\ wr_pc = "given" /\ pc = "done" /\ given # NoFile
    /\ given.type \in RecordTypes
    /\ Range(given.toks) \cap UnknownTokens # {} )
  => /\ LineFields(given) = LineFields(WithoutTokens(given, UnknownTokens))
     /\ Outcome = OutcomeOf(a_gpspoint_read_file(
                    FileText(WithoutTokens(given, UnknownTokens)),
                    line_static_init))

\* the line  type="waypoint" names="X" name="W"  has made the waypoint W
C24_Witness ==
  /\ wr_pc = "given" /\ pc = "done" /\ given # NoFile
  /\ given.type = "waypoint"
  /\ given.toks = <<"key_names", "name_W">>
  /\ Len(waypoints) = 1 /\ waypoints[1].name = <<"W">>

(***************************************************************************)
(* C25.  The waypoint, track or route made from a line is visible unless   *)
(* the line carries a visible field with an explicit value whose first     *)
(* character is other than y, Y, t, T: visible="n" and visible=0 make it   *)
(* invisible; yes, Y, true, T, an empty value, a field without a value or  *)
(* no visible field leave it visible.                                      *)
(***************************************************************************)
\* the visible fields with an explicit value that does not begin with y, Y,
\* t or T
InvisibleTokens == {"visible_n", "visible_0"}

\* the visibility of the one entity the read has made
MadeVisible ==
  IF Len(waypoints) = 1 THEN waypoints[1].visible
                        ELSE tracks[1].visible

C25_VisibleDefault ==
  ( /\ wr_pc = "given" /\ pc = "done" /\ given # NoFile
    /\ given.type \in {"waypoint", "track", "route"}
    /\ Len(waypoints) + Len(tracks) = 1 )
  => (MadeVisible <=> Range(given.toks) \cap InvisibleTokens = {})

(***************************************************************************)
(* C26.  A '#' starts a comment exactly when it is the first character of  *)
(* a token: no further token of the line is emitted and the fields of the  *)
(* tokens before it are kept.  A '#' anywhere else in a token is data: the *)
(* token color=#123456 and the token name="a#b" are emitted whole, and so  *)
(* are the tokens after them.                                              *)
(***************************************************************************)
\* the tokens that begin with '#'
HashTokens == {"hash", "hash_c"}

\* the tokens of a line that come before its first token beginning with '#'
BeforeHash(toks) ==
  LET at == {i \in 1..Len(toks) : toks[i] \in HashTokens}
  IN IF at = {} THEN toks
     ELSE SubSeq(toks, 1, (CHOOSE i \in at : \A j \in at : i <= j) - 1)

\* the tags the tokenizer emits for the record line of g
TagsOf(g) ==
  line_tags(chop(record_line(g.type, g.toks) \o Nl), 0, FALSE, FALSE, <<>>)

C26_HashAtTokenStart ==
  ( /\ wr_pc = "given" /\ pc = "done" /\ given # NoFile
    /\ given.type \in RecordTypes \cup {"untyped"} )
  => /\ (Range(given.toks) \cap HashTokens # {})
          => Outcome = OutcomeOf(a_gpspoint_read_file(
                         FileText([given EXCEPT !.toks = BeforeHash(@)]),
                         line_static_init))
     /\ (given.type # "untyped" /\ Range(given.toks) \cap HashTokens # {})
          => Len(TagsOf(given)) = 1 + Len(BeforeHash(given.toks))
     /\ (given.type # "untyped"
           /\ Range(given.toks) \cap {"color_hash", "name_hash"} # {})
          => /\ Len(TagsOf(given)) = 1 + Len(given.toks)
             /\ \A i \in 1..Len(given.toks) :
                  TagsOf(given)[i + 1].len = Len(TokenText(given.toks[i]))
     /\ (given.type = "waypoint" /\ given.toks # <<>>
           /\ given.toks[1] = "name_hash")
          => /\ Len(waypoints) = 1
             /\ waypoints[1].name = <<"a", "#", "b">>
     /\ (given.type = "track" /\ given.toks = <<"color_hash", "name_W">>)
          => /\ Len(tracks) = 1
             /\ tracks[1].has_color
             /\ tracks[1].name = <<"W">>

\* the line  type="waypoint" # name="W"  has been read and has made nothing
C26_Witness ==
  /\ wr_pc = "given" /\ pc = "done" /\ given # NoFile
  /\ given.type = "waypoint"
  /\ given.toks = <<"hash", "name_W">>
  /\ waypoints = <<>>

(***************************************************************************)
(* C27.  The tokenizer's inside-quotes flag flips on each double quote     *)
(* that is not escaped by a backslash, and only there, also when the       *)
(* backslash is the first character of a token.  Hence on a line whose     *)
(* fields each hold an even number of unescaped quotes and no blank, the   *)
(* flag is down at every blank between two fields, and the tokenizer       *)
(* emits the fields one by one, each whole.                                *)
(***************************************************************************)
\* the number of double quotes of s that no backslash escapes; esc tells
\* whether the character before s is an escaping backslash
RECURSIVE UnescapedQuotes(_, _)
UnescapedQuotes(s, esc) ==
  IF s = <<>> THEN 0
  ELSE IF esc THEN UnescapedQuotes(Tail(s), FALSE)
  ELSE IF Head(s) = BSL THEN UnescapedQuotes(Tail(s), TRUE)
  ELSE (IF Head(s) = DQ THEN 1 ELSE 0) + UnescapedQuotes(Tail(s), FALSE)

\* a field without a blank that leaves the quote state as it found it
ClosedToken(t) ==
  /\ " " \notin Range(TokenText(t))
  /\ UnescapedQuotes(TokenText(t), FALSE) % 2 = 0
  /\ t \notin HashTokens

C27_QuoteFlipsUnescaped ==
  ( /\ wr_pc = "given" /\ pc = "done" /\ given # NoFile
    /\ given.type \in RecordTypes
    /\ \A i \in 1..Len(given.toks) : ClosedToken(given.toks[i]) )
  => /\ Len(TagsOf(given)) = 1 + Len(given.toks)
     /\ \A i \in 1..Len(given.toks) :
          TagsOf(given)[i + 1].len = Len(TokenText(given.toks[i]))

(***************************************************************************)
(* C28.  Every string field the writer emits as key="escape(v)" is read    *)
(* back as exactly one token whatever v contains (blanks, tabs, double     *)
(* quotes, backslashes, a trailing backslash, line breaks): on every line  *)
(* written the tokenizer emits one tag per field written, each with one    *)
(* key, and the string fields read back are v with line breaks turned      *)
(* into blanks.                                                            *)
(***************************************************************************)
\* the layers whose string fields hold the string under test; the symbol,
\* which the writer does not escape, is a plain word
StringLayers ==
  {FullLayer(s, Pin, Dec(1, 25), <<"x">>, TRUE,
             [red |-> 18 * 257, green |-> 52 * 257, blue |-> 86 * 257]) :
     s \in RtStrings \cup RtExtra}

\* the number of equals signs of s; no value of a string layer holds one,
\* so this is the number of fields of a line written
Equals(s) == Cardinality({i \in 1..Len(s) : s[i] = "="})

\* the tokenizer emits the fields of the line ln one by one
OneTagPerField(ln) ==
  LET buf == chop(ln)
      tags == line_tags(buf, 0, FALSE, FALSE, <<>>)
  IN /\ Len(tags) = Equals(ln)
     /\ \A i \in 1..Len(tags) :
          Equals(SubSeq(buf, tags[i].tag + 1, tags[i].tag + tags[i].len)) = 1

\* the string fields of an entity read back, against those written
StringsKept(fields, rd, wr) ==
  \A f \in fields : rd[f] = NewlinesAsSpaces(wr[f])

C28_StringFieldOneToken ==
  (wr_pc = "written" /\ layer \in StringLayers) =>
    /\ pc = "idle" =>
         \A i \in 1..Len(file_lines(file)) : OneTagPerField(file_lines(file)[i])
    /\ pc = "done" =>
         /\ Len(ReadLayer.waypoints) = 1
         /\ Len(ReadLayer.tracks) = 1
         /\ Len(ReadLayer.routes) = 1
         /\ StringsKept({"name", "comment", "description", "source", "url",
                         "url_name", "type", "image"},
                        ReadLayer.waypoints[1], layer.waypoints[1])
         /\ \A kind \in {"tracks", "routes"} :
              LET rd == ReadLayer[kind][1]
                  wr == layer[kind][1]
              IN /\ StringsKept({"name", "comment", "description", "source",
                                 "type"}, rd, wr)
                 /\ Len(rd.trackpoints) = Len(wr.trackpoints)
                 /\ \A k \in 1..Len(wr.trackpoints) :
                      StringsKept({"name"}, rd.trackpoints[k],
                                  wr.trackpoints[k])

\* a layer whose strings are a tab and a backslash has been written and
\* read back
C28_Witness ==
  /\ wr_pc = "written" /\ pc = "done"
  /\ layer \in StringLayers
  /\ layer.waypoints[1].comment = <<"\t", BSL>>
  /\ Len(waypoints) = 1
  /\ waypoints[1].comment = <<"\t", BSL>>

(***************************************************************************)
(* C29.  deslashndup on a span of length zero returns no string (NULL);    *)
(* on a span that ends in an unpaired backslash it returns the value       *)
(* without that backslash; in general the result is the span with every    *)
(* escape-marker backslash removed and every escaped character copied      *)
(* literally, and its length is the span length minus the number of        *)
(* escape markers.                                                         *)
(***************************************************************************)
\* the span s without its escape markers; esc tells whether the character
\* before s is an escape marker
RECURSIVE Unmarked(_, _)
Unmarked(s, esc) ==
  IF s = <<>> THEN <<>>
  ELSE IF esc THEN <<Head(s)>> \o Unmarked(Tail(s), FALSE)
  ELSE IF Head(s) = BSL THEN Unmarked(Tail(s), TRUE)
  ELSE <<Head(s)>> \o Unmarked(Tail(s), FALSE)

\* the number of escape markers of s
RECURSIVE Markers(_, _)
Markers(s, esc) ==
  IF s = <<>> THEN 0
  ELSE IF esc THEN Markers(Tail(s), FALSE)
  ELSE IF Head(s) = BSL THEN 1 + Markers(Tail(s), TRUE)
  ELSE Markers(Tail(s), FALSE)

\* the last character of s is a backslash that no backslash escapes
RECURSIVE EndsUnpaired(_, _)
EndsUnpaired(s, esc) ==
  IF s = <<>> THEN esc
  ELSE EndsUnpaired(Tail(s), ~esc /\ Head(s) = BSL)

C29_UnescapeEdges ==
  esc_pc = "unescaped" =>
    /\ esc_in = <<>> => esc_out = NullStr
    /\ esc_in # <<>> =>
         /\ esc_out = Unmarked(esc_in, FALSE)
         /\ Len(esc_out) = Len(esc_in) - Markers(esc_in, FALSE)
         /\ EndsUnpaired(esc_in, FALSE) =>
              esc_out = Unmarked(SubSeq(esc_in, 1, Len(esc_in) - 1), FALSE)

\* the span a\ has been unescaped to a
C29_Witness ==
  /\ esc_pc = "unescaped"
  /\ esc_in = <<"a", BSL>>
  /\ esc_out = <<"a">>

(***************************************************************************)
(* C30.  On every point line the writer emits, extended="yes" is present   *)
(* exactly when the point has a speed, a course or a satellite count, and  *)
(* none of the keys speed, course, sat, fix, hdop, vdop, pdop appears on a *)
(* point line without the marker; so the reader, which takes these fields  *)
(* from marked lines only, gives every one the writer wrote back.          *)
(***************************************************************************)
\* the keys of the fields a point line carries under the marker, and the
\* fields of a point they are written from
ExtendedKeys ==
  {KEY.speed, KEY.course, KEY.sat, KEY.fix, KEY.hdop, KEY.vdop, KEY.pdop}

ExtendedFields ==
  {"speed", "course", "nsats", "fix_mode", "hdop", "vdop", "pdop"}

\* the point has a speed, a course or a satellite count
Marked(tp) == ~isnan(tp.speed) \/ ~isnan(tp.course) \/ tp.nsats > 0

C30_ExtendedMarker ==
  LET all == layer.tracks \o layer.routes
      rd == ReadLayer.tracks \o ReadLayer.routes
  IN /\ (wr_pc = "written" /\ pc = "idle") =>
          \A t \in 1..Len(all) : \A k \in 1..Len(all[t].trackpoints) :
            LET ln == file_lines(file)[PointLineNo(layer, t, k)]
            IN /\ HasKey(ln, KEY.extended) <=> Marked(all[t].trackpoints[k])
               /\ \A key \in ExtendedKeys :
                    HasKey(ln, key) => HasKey(ln, KEY.extended)
     /\ (wr_pc = "written" /\ pc = "done") =>
          /\ Len(rd) = Len(all)
          /\ \A t \in 1..Len(all) :
               /\ Len(rd[t].trackpoints) = Len(all[t].trackpoints)
               /\ \A k \in 1..Len(all[t].trackpoints) :
                    Marked(all[t].trackpoints[k]) =>
                      \A f \in ExtendedFields :
                        rd[t].trackpoints[k][f] = all[t].trackpoints[k][f]

\* the layer of points with one of speed, course, satellite count has been
\* written and read back, the speed of the first point with it
C30_Witness ==
  /\ wr_pc = "written" /\ pc = "done"
  /\ layer = PartialPointLayer
  /\ Len(tracks) = 2
  /\ Len(ReadLayer.tracks[1].trackpoints) = 3
  /\ ReadLayer.tracks[1].trackpoints[1].speed = Dec(3, 25)
  /\ ReadLayer.routes[1].trackpoints[1].hdop = Dec(1, 50)

(***************************************************************************)
(* Writing any layer, its entities named or not, and reading the file      *)
(* back: the writer's sanity clauses skip an entity whose name is NULL.    *)
(***************************************************************************)
MaybeName(named, s) == IF named THEN s ELSE NullStr

\* two waypoints, two tracks and a route, each named or not
MixedLayer(w1, w2, t1, t2, r1) ==
  [ waypoints |-> <<BareWaypoint(MaybeName(w1, <<"a">>)),
                    BareWaypoint(MaybeName(w2, <<"b">>))>>,
    tracks |-> <<BareTrack(MaybeName(t1, <<"c">>), FALSE, 2),
                 BareTrack(MaybeName(t2, <<"d">>), FALSE, 1)>>,
    routes |-> <<BareTrack(MaybeName(r1, <<"e">>), TRUE, 2)>> ]

MixedLayers ==
  {MixedLayer(w1, w2, t1, t2, r1) : w1, w2, t1, t2, r1 \in BOOLEAN}

\* a waypoint and a track of one point whose names are the empty string
EmptyNamedLayer ==
  [ waypoints |-> <<BareWaypoint(<<>>)>>,
    tracks |-> <<BareTrack(<<>>, FALSE, 1)>>,
    routes |-> <<>> ]

AnyLayers ==
  MixedLayers
    \cup {EmptyNamedLayer}
    \cup {[waypoints |-> <<>>, tracks |-> <<>>, routes |-> <<>>]}
    \cup {DopOnlyLayer, PartialPointLayer}
    \cup {OrderedLayer(p) : p \in Orders}
    \cup {FullLayer(<<"a">>, sym, Dec(1, 25), <<"x">>, vis,
                    [red |-> 18 * 257, green |-> 52 * 257, blue |-> 86 * 257]) :
            sym \in Symbols, vis \in BOOLEAN}

WriterInitAny ==
  /\ ReaderInit
  /\ CodecIdle
  /\ AuxIdle
  /\ wr_pc = "layer"
  /\ layer \in AnyLayers
  /\ file = <<>>

SpecWriteAny == WriterInitAny /\ [][WriterNext]_vars

(***************************************************************************)
(* C31.  The writer's output is well bracketed: the waypoint lines come    *)
(* first (between the list lines), then the tracks, then the routes; each  *)
(* named track or route has one opening line, one line per point in list   *)
(* order typed trackpoint or routepoint, and one closing line trackend or  *)
(* routeend; no point line lies outside such a pair and an entity without  *)
(* a name emits no line.                                                   *)
(***************************************************************************)
\* the type a written line begins with, "none" when it begins with none
LineTypeName(ln) ==
  LET Begins(n) ==
        LET pat == Fld(KEY.type, TYPENAME[n])
        IN /\ Len(ln) > Len(pat)
           /\ SubSeq(ln, 1, Len(pat)) = pat
           /\ ln[Len(pat) + 1] \in {" ", "\n"}
  IN IF \E n \in DOMAIN TYPENAME : Begins(n)
       THEN CHOOSE n \in DOMAIN TYPENAME : Begins(n)
       ELSE "none"

\* the lines a well-bracketed file holds for the tracks or routes trks: the
\* type of each and a field it must carry
RECURSIVE BracketedTracks(_)
BracketedTracks(trks) ==
  IF trks = <<>> THEN <<>>
  ELSE LET trk == Head(trks)
           kind == IF trk.is_route THEN "route" ELSE "track"
           PointType == IF trk.is_route THEN "routepoint" ELSE "trackpoint"
       IN (IF trk.name = NullStr THEN <<>>
           ELSE <<[type |-> kind, mark |-> Sp \o Fld(KEY.name, trk.name)]>>
                  \o [k \in 1..Len(trk.trackpoints) |->
                        [type |-> PointType,
                         mark |-> Sp \o Fld(KEY.latitude,
                                    a_coords_dtostr_buffer(
                                      trk.trackpoints[k].coord.lat))]]
                  \o <<[type |-> IF trk.is_route THEN "routeend"
                                 ELSE "trackend",
                        mark |-> <<>>]>>)
            \o BracketedTracks(Tail(trks))

Bracketed(L) ==
  LET Named(wp) == wp.name # NullStr
      wps == SelectSeq(L.waypoints, Named)
  IN <<[type |-> "waypointlist", mark |-> <<>>]>>
       \o [k \in 1..Len(wps) |->
             [type |-> "waypoint", mark |-> Sp \o Fld(KEY.name, wps[k].name)]]
       \o <<[type |-> "waypointlistend", mark |-> <<>>]>>
       \o BracketedTracks(L.tracks)
       \o BracketedTracks(L.routes)

C31_WellBracketed ==
  (wr_pc = "written" /\ pc = "idle") =>
    LET lns == file_lines(file)
        exp == Bracketed(layer)
    IN /\ Len(lns) = Len(exp)
       /\ \A i \in 1..Len(exp) :
            /\ LineTypeName(lns[i]) = exp[i].type
            /\ Contains(lns[i], exp[i].mark)

\* a layer with a nameless waypoint, a nameless track of two points and a
\* named track and route has been written: six lines besides the list lines
C31_Witness ==
  /\ wr_pc = "written" /\ pc = "idle"
  /\ layer = MixedLayer(FALSE, TRUE, FALSE, TRUE, TRUE)
  /\ Len(file_lines(file)) = 10

(***************************************************************************)
(* C32.  For every waypoint with a symbol, the symbol value on the written *)
(* line is the stored symbol name in lowercase, whatever case is stored,   *)
(* and reading the line back gives the lowercased name.                    *)
(***************************************************************************)
C32_SymbolLowercased ==
  ( /\ wr_pc = "written"
    /\ Len(layer.waypoints) = 1
    /\ layer.waypoints[1].symbol # NullStr )
  => LET low == g_utf8_strdown(layer.waypoints[1].symbol)
     IN /\ pc = "idle" => Contains(file, Sp \o Fld(KEY.symbol, low))
        /\ pc = "done" => /\ Len(waypoints) = 1
                          /\ waypoints[1].symbol = low

(***************************************************************************)
(* C33.  At every line boundary of a read at most one entity is open, and  *)
(* an open entity is the track or route created last in this read; a point *)
(* line is appended only to that entity, never to an earlier one.          *)
(***************************************************************************)
\* the tracks and routes that gain a point in the step
Gaining ==
  {k \in 1..Len(tracks) :
     /\ k <= Len(tracks')
     /\ Len(tracks'[k].trackpoints) > Len(tracks[k].trackpoints)}

C33_OpenIsLatest ==
  /\ [](current_track # 0 => current_track = Len(tracks))
  /\ [][ /\ Cardinality(Gaining) <= 1
         /\ \A k \in Gaining : k = Len(tracks) /\ k = current_track
         /\ \A k \in (Len(tracks) + 1)..Len(tracks') :
              tracks'[k].trackpoints = <<>> ]_vars

\* a second track is open and has a point, after a first one with a point
C33_Witness ==
  /\ pc = "read"
  /\ Len(tracks) = 2
  /\ current_track = 2
  /\ Len(tracks[1].trackpoints) = 1
  /\ Len(tracks[2].trackpoints) = 1

(***************************************************************************)
(* C34.  A waypoint or track line dropped for lack of a name leaves the    *)
(* open entity exactly as it was, neither closing nor replacing it: a      *)
(* point line that follows it is appended to the entity that was open      *)
(* before it, if one was, and dropped otherwise.                           *)
(***************************************************************************)
NamelessLines == {"track_noname", "waypoint_noname"}

C34_NamelessLeavesOpen ==
  /\ [][ Consumed(NamelessLines)
           => UNCHANGED <<tracks, waypoints, current_track>> ]_vars
  /\ [][ ( /\ Consumed(PointLines)
           /\ hist # <<>>
           /\ hist[Len(hist)] \in NamelessLines )
         => /\ waypoints' = waypoints
            /\ current_track' = current_track
            /\ Len(tracks') = Len(tracks)
            /\ \A k \in 1..Len(tracks) :
                 IF k = current_track
                   THEN /\ Len(tracks'[k].trackpoints)
                             = Len(tracks[k].trackpoints) + 1
                        /\ tracks'[k].trackpoints[1].lineno = Len(hist')
                        /\ Tail(tracks'[k].trackpoints) = tracks[k].trackpoints
                   ELSE tracks'[k] = tracks[k] ]_vars

\* track T, a point, a track line without a name, a point: T is open and
\* holds both points
C34_Witness ==
  /\ pc = "read"
  /\ hist = <<"track_T", "trackpoint", "track_noname", "trackpoint">>
  /\ Len(tracks) = 1
  /\ current_track = 1
  /\ Len(tracks[1].trackpoints) = 2

(***************************************************************************)
(* C35.  The reader does not match point or end lines against the kind of  *)
(* the open entity: a routepoint line is appended to an open track and a   *)
(* trackpoint line to an open route, a routeend line closes an open track  *)
(* and a trackend line an open route; whether an entity is a route is      *)
(* fixed by its start line alone.                                          *)
(***************************************************************************)
C35_KindNotMatched ==
  /\ [][ (Consumed(PointLines) /\ current_track # 0)
           => /\ current_track' = current_track
              /\ Len(tracks'[current_track].trackpoints)
                   = Len(tracks[current_track].trackpoints) + 1 ]_vars
  /\ [][ ( /\ Consumed(EndLines)
           /\ current_track # 0
           /\ tracks[current_track].trackpoints # <<>> )
           => current_track' = 0 ]_vars
  /\ [](\A k \in 1..Len(tracks) :
          tracks[k].is_route <=> hist[tracks[k].lineno] = "route_R")

\* a routepoint line has been appended to the track T and a routeend line
\* has closed it
C35_Witness ==
  /\ hist = <<"track_T", "routepoint", "routeend", "trackpoint">>
  /\ Len(tracks) = 1
  /\ ~tracks[1].is_route
  /\ Len(tracks[1].trackpoints) = 1
  /\ current_track = 0

(***************************************************************************)
(* C36.  When a key appears more than once on one line: for name, comment, *)
(* description, source, xtype, color and image the first non-empty         *)
(* occurrence is kept; for type, url, url_name, symbol and every numeric   *)
(* key the last occurrence wins; visible, once set false by an occurrence, *)
(* is not set back to true by a later visible="y".                         *)
(***************************************************************************)
\* the per-line fields after a record line of the given type and fields
FieldsOfText(type, text) ==
  tokenize_line(chop(Fld(KEY.type, TYPENAME[type]) \o Sp \o text \o Nl),
                read_file_entry(line_static_init))

C36_DuplicateKeys ==
  ( /\ wr_pc = "given" /\ pc = "done" /\ given # NoFile
    /\ given.type \in RecordTypes
    /\ Len(given.toks) = 1
    /\ given.toks[1] \in DupProbes )
  => LET t == given.type
         p == given.toks[1]
         f == LineFields(given)
     IN /\ p = "dup_first" => f = FieldsOfText(t, Once(FirstKeys, <<"A">>))
        /\ p = "dup_empty_first" => f = FieldsOfText(t, Once(FirstKeys, <<"B">>))
        /\ p = "dup_last" => f = FieldsOfText(t, Once(LastKeys, <<"2">>))
        /\ p = "dup_empty_last" => f = FieldsOfText(t, Once(LastKeys, <<>>))
        /\ p = "dup_type" => f.type = GPSPOINT_TYPE_TRACK
        /\ p = "dup_visible" => ~f.visible
        /\ (p = "dup_first" /\ t = "waypoint")
             => /\ Len(waypoints) = 1
                /\ waypoints[1].name = <<"A">>
                /\ waypoints[1].comment = <<"A">>

(***************************************************************************)
(* C37.  Reading back what the writer wrote returns true exactly when the  *)
(* layer written held at least one named waypoint, track or route; for a   *)
(* layer without entities the file holds the two list lines only, neither  *)
(* of which makes a record, and the read returns false.                    *)
(***************************************************************************)
\* the layer holds an entity with a name that is not empty
HoldsNamed(L) ==
  \E kind \in {"waypoints", "tracks", "routes"} :
    \E k \in 1..Len(L[kind]) : StrPresent(L[kind][k].name)

ListLinesOnly ==
  Fld(KEY.type, TYPENAME.waypointlist) \o Nl
    \o Fld(KEY.type, TYPENAME.waypointlistend) \o Nl

C37_ReadBackResult ==
  wr_pc = "written" =>
    /\ pc = "done" => (result <=> HoldsNamed(layer))
    /\ (pc = "idle" /\ layer.waypoints = <<>> /\ layer.tracks = <<>>
          /\ layer.routes = <<>>) => file = ListLinesOnly
    /\ (pc = "done" /\ ~HoldsNamed(layer)) =>
         /\ tracks = <<>> /\ waypoints = <<>>
         /\ ~have_read_something

\* the layer without entities has been written and read back: the two list
\* lines were read and the result is false
C37_Witness ==
  /\ wr_pc = "written" /\ pc = "done"
  /\ layer = [waypoints |-> <<>>, tracks |-> <<>>, routes |-> <<>>]
  /\ Len(hist) = 2
  /\ ~result

(***************************************************************************)
(* C38.  The reader removes exactly the last character of every chunk      *)
(* fgets delivers, line terminator or not, before it tokenizes the chunk:  *)
(* the text tokenized is the chunk's string one character shorter.  A last *)
(* line without terminator and each full-buffer chunk of an over-long line *)
(* lose the closing quote of their last field, so the field is dropped:    *)
(* the waypoint lines that end with name="W" make no waypoint.             *)
(***************************************************************************)
C38_LastCharacterChopped ==
  /\ \A i \in 1..Len(hist) :
       LET s == c_str(hist[i])
       IN /\ Len(chop(s)) = strlen(s) - 1
          /\ chop(s) \o <<At(s, chop_index(hist[i]))>> = s
  /\ (pc = "done" /\ given = [type |-> "raw", toks |-> <<"no_final_newline">>])
       => /\ hist = <<RAW.no_final_newline>>
          /\ waypoints = <<>>
          /\ ~result
  /\ (pc = "done" /\ given = [type |-> "raw", toks |-> <<"over_long">>])
       => /\ Len(hist) = 3
          /\ Len(hist[1]) = VIKING_LINE_SIZE - 1
          /\ Len(hist[2]) = VIKING_LINE_SIZE - 1
          /\ hist[3] = Nl
          /\ waypoints = <<>>
          /\ ~result

(***************************************************************************)
(* C39.  Two reads run one after the other are independent: when the       *)
(* second invocation begins only after the first has returned, the         *)
(* entities and the result of the second are those it produces when run    *)
(* alone on its file, whatever the first one has parsed.                   *)
(***************************************************************************)
\* the caller reads two files one after the other: invocation 2 is entered
\* only after invocation 1 has returned
ReadTwiceNext ==
  \/ ParBegin(1)
  \/ ParLine(1)
  \/ ParEOF(1)
  \/ (par[1].pc = "done" /\ ParBegin(2))
  \/ ParLine(2)
  \/ ParEOF(2)

SpecReadTwice == ParInit /\ [][ReadTwiceNext]_vars

C39_SequentialReadsIndependent ==
  par[2].pc = "done" => ParOutcome(2) = AloneOutcome(par[2].input)

(***************************************************************************)
(* C40.  In the field splitter, for every token the tokenizer hands over   *)
(* (its length is at least 1) the search for the key end stops with        *)
(* key_end - tag <= len: the branch of key_end - tag == len + 1 is never   *)
(* taken.  A token either has no '=' and is discarded, or its quoted value *)
(* is rejected, or a value span of length >= 0 is dispatched.              *)
(***************************************************************************)
\* the tokens of the chunk, as the reader takes them from the line buffer
TagsOfChunk(chunk) == line_tags(chop(c_str(chunk)), 0, FALSE, FALSE, <<>>)

C40_KeyEndWithinToken ==
  \A i \in 1..Len(hist) :
    LET buf == chop(c_str(hist[i]))
        tags == TagsOfChunk(hist[i])
    IN \A j \in 1..Len(tags) :
         LET t == tags[j]
             o == tag_outcome(buf, t.tag, t.len)
         IN /\ t.len >= 1
            /\ key_end_search(buf, t.tag, t.len, 1) <= t.len
            /\ o.branch \in {"no_equals", "rejected", "value"}
            /\ o.n >= 0

\* a line with a token without '=' and a quoted value without closing quote
C40_Witness ==
  /\ pc = "done"
  /\ given = [type |-> "waypoint", toks |-> <<"no_equals", "open_quote">>]
  /\ Len(hist) = 1
  /\ LET buf == chop(c_str(hist[1]))
         tags == TagsOfChunk(hist[1])
     IN /\ Len(tags) = 3
        /\ tag_outcome(buf, tags[1].tag, tags[1].len).branch = "value"
        /\ key_end_search(buf, tags[2].tag, tags[2].len, 1) = tags[2].len
        /\ tag_outcome(buf, tags[2].tag, tags[2].len).branch = "no_equals"
        /\ tag_outcome(buf, tags[3].tag, tags[3].len).branch = "rejected"

=============================================================================
